---- MODULE Spec2Model ----
(***************************************************************************)
(* Warehouse monthly settlement ledger: the spreadsheet backend            *)
(* (src/GAS_BACKEND.js) and the repository facade                          *)
(* (src/services/dbService.ts) that writes to it and reads it back.        *)
(*                                                                         *)
(* String literals of the source that are written in Chinese are           *)
(* transliterated (pinyin), because the module is ASCII:                   *)
(*   jinhuo 進貨, yongliao 用料, jianzhi 建置, weixiu 維修                 *)
(*   bianhao 編號, riqi 日期, danju_riqi 單據日期, leibie 類別,            *)
(*   jilu_leibie 紀錄類別, liaojian_mingcheng 料件名稱,                    *)
(*   weixiu_lingjian/zhuti 維修零件/主體, liaojian_bianhao 料件編號,       *)
(*   liaojian_bianhao(PN) 料件編號(PN), jitai_bianhao 機台編號,            *)
(*   jitai ID 機台 ID, shuliang 數量, danjia 單價, weixiu_danjia 維修單價, *)
(*   feiyong 費用, zonge 總額, weixiu_zonge 維修總額, xiaoji 小計,         *)
(*   jiesuan_zonge 結算總額, beizhu 備註, jitai_zhonglei 機台種類,         *)
(*   caozuo_renyuan 操作人員, zhangmu_leibie 帳目類別,                     *)
(*   shifou_shouhuo 是否收貨, xuhao 序號, shebei_xuhao(SN) 設備序號(SN),   *)
(*   guzhang_yuanyin 故障原因, shifou_baofei 是否報廢,                     *)
(*   songxiu_riqi 送修日期, wanxiu_riqi 完修日期, shangji_riqi 上機日期,   *)
(*   weimingming 未命名, xitong 系統, shi 是, baofei 報廢,                 *)
(*   yi baofei 已報廢,                                                     *)
(*   [baofei] 【報廢】, mima_bu_zhengque 密碼不正確,                       *)
(*   lianxian_shibai 連線失敗..., xitong_lianxian_yichang 系統連線異常     *)
(***************************************************************************)
EXTENDS Integers, Sequences, FiniteSets, TLC

VARIABLES sheets, last, issued, currentUser, form, call,
          transactions, cache, pending, view, running

vars == <<sheets, last, issued, currentUser, form, call,
          transactions, cache, pending, view, running>>

\* what App holds besides the session: the transaction list (the state
\* transactions), the display cache (localStorage 'wms_cache_data', empty when
\* the item is absent), the loadData calls that await their response, and
\* what the views show; the frames that leave these alone also leave alone
\* the doPost executions under way in the script (running)
local == <<transactions, cache, pending, view, running>>

\* the state of the browser client: the session user, the open form, what the
\* last call of the facade was given and returned, and what App holds
client == <<currentUser, form, call, local>>

(***************************************************************************)
(* Bounds of the model.                                                    *)
(***************************************************************************)
\* most data rows the whole spreadsheet holds under Spec
MaxRows == 2
\* most data rows the whole spreadsheet holds under SpecWrite
MaxWrites == 2

(***************************************************************************)
(* JavaScript values.  Every value is a record of the same shape so that   *)
(* any two values can be compared: k is the JavaScript type, n the number  *)
(* (or 1/0 for a boolean), s the string.  Numbers are integers.            *)
(***************************************************************************)
Undef == [k |-> "undefined", n |-> 0, s |-> ""]
Null == [k |-> "null", n |-> 0, s |-> ""]
NaN == [k |-> "nan", n |-> 0, s |-> ""]
Num(i) == [k |-> "number", n |-> i, s |-> ""]
Str(t) == [k |-> "string", n |-> 0, s |-> t]
Bool(b) == [k |-> "boolean", n |-> IF b THEN 1 ELSE 0, s |-> ""]

\* JavaScript truthiness, as used by || and !!
Truthy(v) ==
  CASE v.k = "number" -> v.n # 0
    [] v.k = "string" -> v.s # ""
    [] v.k = "boolean" -> v.n = 1
    [] OTHER -> FALSE

\* a || b
Or(a, b) == IF Truthy(a) THEN a ELSE b

Digits == <<"0", "1", "2", "3", "4", "5", "6", "7", "8", "9">>

IsDigit(c) == \E i \in 1..10 : Digits[i] = c

DigitVal(c) == (CHOOSE i \in 1..10 : Digits[i] = c) - 1

RECURSIVE AllDigits(_)
AllDigits(t) == IF t = "" THEN TRUE ELSE IsDigit(Head(t)) /\ AllDigits(Tail(t))

RECURSIVE DigitsVal(_, _)
DigitsVal(t, acc) ==
  IF t = "" THEN acc ELSE DigitsVal(Tail(t), acc * 10 + DigitVal(Head(t)))

RECURSIVE TrimLeft(_)
TrimLeft(t) == IF t # "" /\ Head(t) = " " THEN TrimLeft(Tail(t)) ELSE t

RECURSIVE TrimRight(_)
TrimRight(t) ==
  IF t # "" /\ SubSeq(t, Len(t), Len(t)) = " "
  THEN TrimRight(SubSeq(t, 1, Len(t) - 1))
  ELSE t

\* String.prototype.trim
Trim(t) == TrimRight(TrimLeft(t))

\* Number(string): blank is 0, an optionally signed decimal integer is its
\* value, anything else is NaN
StringToNumber(t) ==
  LET u == Trim(t) IN
  IF u = "" THEN Num(0)
  ELSE IF AllDigits(u) THEN Num(DigitsVal(u, 0))
  ELSE IF Head(u) = "-" /\ Tail(u) # "" /\ AllDigits(Tail(u))
       THEN Num(0 - DigitsVal(Tail(u), 0))
  ELSE NaN

\* Number(v)
ToNumber(v) ==
  CASE v.k = "number" -> v
    [] v.k = "string" -> StringToNumber(v.s)
    [] v.k = "boolean" -> Num(v.n)
    [] v.k = "null" -> Num(0)
    [] OTHER -> NaN

\* a * b on numbers: NaN is absorbing
Mul(a, b) == IF a.k = "nan" \/ b.k = "nan" THEN NaN ELSE Num(a.n * b.n)

RECURSIVE NatToString(_)
NatToString(i) ==
  IF i < 10 THEN Digits[i + 1]
  ELSE NatToString(i \div 10) \o Digits[(i % 10) + 1]

\* String(v)
ToStringJS(v) ==
  CASE v.k = "string" -> v.s
    [] v.k = "number" ->
         IF v.n < 0 THEN "-" \o NatToString(0 - v.n) ELSE NatToString(v.n)
    [] v.k = "boolean" -> IF v.n = 1 THEN "true" ELSE "false"
    [] v.k = "null" -> "null"
    [] v.k = "nan" -> "NaN"
    [] OTHER -> "undefined"

\* a value after JSON.stringify and JSON.parse: NaN becomes null
JsonValue(v) == IF v.k = "nan" THEN Null ELSE v

(***************************************************************************)
(* The backend: src/GAS_BACKEND.js                                         *)
(***************************************************************************)
INBOUND == "jinhuo"

USAGE == "yongliao"

CONSTRUCTION == "jianzhi"

REPAIR == "weixiu"

CATEGORIES == <<INBOUND, USAGE, CONSTRUCTION, REPAIR>>

Categories == {CATEGORIES[i] : i \in 1..Len(CATEGORIES)}

COMMON_FIELDS == <<
  [header |-> "id", keys |-> <<"id", "ID", "bianhao">>],
  [header |-> "date", keys |-> <<"date", "riqi", "danju_riqi">>],
  [header |-> "type", keys |-> <<"type", "leibie", "jilu_leibie">>],
  [header |-> "materialName",
   keys |-> <<"materialName", "liaojian_mingcheng", "weixiu_lingjian/zhuti">>],
  [header |-> "materialNumber",
   keys |-> <<"materialNumber", "liaojian_bianhao", "liaojian_bianhao(PN)">>],
  [header |-> "jitai_bianhao",
   keys |-> <<"jitai_bianhao", "machineNumber", "jitai ID">>],
  [header |-> "quantity", keys |-> <<"quantity", "shuliang">>],
  [header |-> "unitPrice",
   keys |-> <<"unitPrice", "danjia", "weixiu_danjia", "feiyong">>],
  [header |-> "total",
   keys |-> <<"total", "zonge", "weixiu_zonge", "xiaoji", "jiesuan_zonge">>],
  [header |-> "note", keys |-> <<"note", "beizhu">>],
  [header |-> "jitai_zhonglei", keys |-> <<"jitai_zhonglei", "machineCategory">>],
  [header |-> "caozuo_renyuan", keys |-> <<"caozuo_renyuan", "operator">>] >>

ACCOUNT_FIELDS == <<
  [header |-> "zhangmu_leibie", keys |-> <<"zhangmu_leibie", "accountCategory">>] >>

INBOUND_FIELDS == <<
  [header |-> "shifou_shouhuo", keys |-> <<"shifou_shouhuo", "isReceived">>] >>

REPAIR_FIELDS == <<
  [header |-> "sn", keys |-> <<"sn", "xuhao", "shebei_xuhao(SN)">>],
  [header |-> "guzhang_yuanyin", keys |-> <<"guzhang_yuanyin", "faultReason">>],
  [header |-> "shifou_baofei", keys |-> <<"shifou_baofei", "isScrapped">>],
  [header |-> "songxiu_riqi", keys |-> <<"songxiu_riqi", "sentDate">>],
  [header |-> "wanxiu_riqi", keys |-> <<"wanxiu_riqi", "repairDate">>],
  [header |-> "shangji_riqi", keys |-> <<"shangji_riqi", "installDate">>] >>

\* Array.prototype.indexOf(x) !== -1
Includes(seq, x) == \E i \in 1..Len(seq) : seq[i] = x

\* fields.map(f => f.header)
Headers(fields) == [i \in 1..Len(fields) |-> fields[i].header]

\* fields.some(f => f.header === header)
SomeHeader(fields, header) == \E i \in 1..Len(fields) : fields[i].header = header

\* a header text names a field by its header or by any of its keys
Matches(field, headerText) ==
  field.header = headerText \/ Includes(field.keys, headerText)

UpperCase == "ABCDEFGHIJKLMNOPQRSTUVWXYZ"

LowerCase == "abcdefghijklmnopqrstuvwxyz"

LowerChar(c) ==
  IF \E i \in 1..26 : SubSeq(UpperCase, i, i) = c
  THEN LET i == CHOOSE i \in 1..26 : SubSeq(UpperCase, i, i) = c
       IN SubSeq(LowerCase, i, i)
  ELSE c

\* String.prototype.toLowerCase
RECURSIVE ToLowerCase(_)
ToLowerCase(t) ==
  IF t = "" THEN "" ELSE LowerChar(Head(t)) \o ToLowerCase(Tail(t))

UpperChar(c) ==
  IF \E i \in 1..26 : SubSeq(LowerCase, i, i) = c
  THEN LET i == CHOOSE i \in 1..26 : SubSeq(LowerCase, i, i) = c
       IN SubSeq(UpperCase, i, i)
  ELSE c

\* String.prototype.toUpperCase
RECURSIVE ToUpperCase(_)
ToUpperCase(t) ==
  IF t = "" THEN "" ELSE UpperChar(Head(t)) \o ToUpperCase(Tail(t))

\* A sheet: whether it exists, its header row (row 1) and its data rows
\* (rows 2..); a cell never written reads as the empty string
NoSheet == [exists |-> FALSE, hdr |-> <<>>, rows |-> <<>>]

\* getValues() pads a short row with empty cells
Cell(row, idx) == IF idx <= Len(row) THEN row[idx] ELSE Str("")

\* sheet.getLastColumn(): rows are never wider than the header row
LastColumn(sheet) == Len(sheet.hdr)

\* the fields a sheet of that name must have a column for
TargetFields(sheetName) ==
  IF sheetName # REPAIR
  THEN COMMON_FIELDS \o ACCOUNT_FIELDS
       \o (IF sheetName = INBOUND THEN INBOUND_FIELDS ELSE <<>>)
  ELSE COMMON_FIELDS \o REPAIR_FIELDS

\* Faulty variant of MissingHeaders: a current header finds a field only by
\* the field's header, not by its keys
MissingHeadersByHeader(currentHeaders, sheetName) ==
  LET targetFields == TargetFields(sheetName)
      found(field) ==
        \E i \in 1..Len(currentHeaders) : field.header = Trim(currentHeaders[i])
  IN Headers(SelectSeq(targetFields, LAMBDA field : ~found(field)))

\* the headers of the target fields that no current header names, in order
MissingHeaders(currentHeaders, sheetName) ==
  LET targetFields == TargetFields(sheetName)
      found(field) ==
        \E i \in 1..Len(currentHeaders) : Matches(field, Trim(currentHeaders[i]))
  IN Headers(SelectSeq(targetFields, LAMBDA field : ~found(field)))

\* The header rows the model starts from or creates, and the missing headers of
\* each, computed once; MissingHeadersOf is MissingHeaders read from that table
\* where the table has the row.
LegacyHeaders == <<
  "ID", "riqi", "leibie", "liaojian_mingcheng", "liaojian_bianhao",
  "jitai_bianhao", "shuliang", "danjia", "zonge", "beizhu", "jitai_zhonglei",
  "zhangmu_leibie", "shifou_shouhuo", "xuhao", "guzhang_yuanyin",
  "shifou_baofei", "songxiu_riqi", "wanxiu_riqi", "shangji_riqi" >>

KnownHeaderRows ==
  LET base == {Headers(COMMON_FIELDS), LegacyHeaders}
  IN base \cup {h \o MissingHeaders(h, cat) : h \in base, cat \in Categories}

MissingHeadersTable ==
  [h \in KnownHeaderRows |-> [cat \in Categories |-> MissingHeaders(h, cat)]]

MissingHeadersOf(currentHeaders, sheetName) ==
  IF currentHeaders \in KnownHeaderRows
  THEN MissingHeadersTable[currentHeaders][sheetName]
  ELSE MissingHeaders(currentHeaders, sheetName)

\* sheet.getRange(1, col, 1, missingHeaders.length).setValues([missingHeaders])
\* when there are missing headers: row 1 from column col on
setHeaders(sheet, col, missingHeaders) ==
  IF Len(missingHeaders) > 0
  THEN [sheet EXCEPT !.hdr = SubSeq(@, 1, col - 1) \o missingHeaders]
  ELSE sheet

\* Faulty variant of ensureHeaders: the missing headers are written from the
\* last column on, not to its right
ensureHeadersOverLast(sheet, sheetName) ==
  setHeaders(sheet, LastColumn(sheet), MissingHeadersOf(sheet.hdr, sheetName))

\* ensureHeaders(sheet, sheetName): the sheet with the missing headers written
\* to the right of the last column
ensureHeaders(sheet, sheetName) ==
  setHeaders(sheet, LastColumn(sheet) + 1, MissingHeadersOf(sheet.hdr, sheetName))

AllFieldDefinitions ==
  COMMON_FIELDS \o ACCOUNT_FIELDS \o INBOUND_FIELDS \o REPAIR_FIELDS

\* the field a header text names: the first definition that matches, or none
HasMatchedField(headerText) ==
  \E i \in 1..Len(AllFieldDefinitions) : Matches(AllFieldDefinitions[i], headerText)

MatchedField(headerText) ==
  LET i == CHOOSE i \in 1..Len(AllFieldDefinitions) :
             /\ Matches(AllFieldDefinitions[i], headerText)
             /\ \A j \in 1..(i - 1) : ~Matches(AllFieldDefinitions[j], headerText)
  IN AllFieldDefinitions[i]

NoField == [header |-> "", keys |-> <<>>]

\* A JavaScript object is a function from every key the program uses to a
\* value; a key the object does not have holds undefined, which is what
\* reading it gives.
Keys ==
  UNION {{AllFieldDefinitions[i].header} \cup
         {AllFieldDefinitions[i].keys[j] : j \in 1..Len(AllFieldDefinitions[i].keys)} :
         i \in 1..Len(AllFieldDefinitions)}

EmptyObject == [key \in Keys |-> Undef]

\* the object with the fields of a record
Object(rec) == [key \in Keys |-> IF key \in DOMAIN rec THEN rec[key] ELSE Undef]

\* obj[key]
Get(obj, key) == obj[key]

\* obj with obj[key] = val
With(obj, key, val) == [obj EXCEPT ![key] = val]

\* obj without the key
Without(obj, key) == [obj EXCEPT ![key] = Undef]

\* an object after JSON.stringify and JSON.parse: keys holding undefined are
\* dropped, NaN becomes null
JsonObject(obj) == [key \in Keys |-> JsonValue(obj[key])]

\* every header text of the tables above and of the legacy layout, and the
\* field each names, computed once
HeaderTexts == Keys \cup {LegacyHeaders[i] : i \in 1..Len(LegacyHeaders)}

MatchedFieldTable ==
  [h \in HeaderTexts |->
     IF HasMatchedField(Trim(h)) THEN MatchedField(Trim(h)) ELSE NoField]

\* allFieldDefinitions.find(...) for String(h).trim(); NoField when none matches
MatchedFieldOf(h) ==
  IF h \in HeaderTexts THEN MatchedFieldTable[h]
  ELSE IF HasMatchedField(Trim(h)) THEN MatchedField(Trim(h)) ELSE NoField

\* the first key of the field that the payload holds a value for
RECURSIVE FirstKeyValue(_, _, _)
FirstKeyValue(keys, payload, j) ==
  IF j > Len(keys) THEN Undef
  ELSE LET val == Get(payload, keys[j])
       IN IF val # Undef /\ val # Null THEN val
          ELSE FirstKeyValue(keys, payload, j + 1)

\* Faulty variant of Quantity: no default
QuantityNoDefault(payload) == ToNumber(Get(payload, "quantity"))

Quantity(payload) == ToNumber(Or(Get(payload, "quantity"), Num(1)))

UnitPrice(payload) == ToNumber(Or(Get(payload, "unitPrice"), Num(0)))

\* Faulty variant of CalculatedTotal: the payload's total when it has one
CalculatedTotalTrusting(payload) ==
  ToNumber(Or(Get(payload, "total"), Mul(Quantity(payload), UnitPrice(payload))))

CalculatedTotal(payload) == Mul(Quantity(payload), UnitPrice(payload))

\* Faulty variant of Suppressed: only a REPAIR record has fields blanked
SuppressedRepairOnly(type, header) ==
  /\ type = REPAIR
  /\ (SomeHeader(ACCOUNT_FIELDS, header) \/ SomeHeader(INBOUND_FIELDS, header))

\* the fields blanked for a record of that type
Suppressed(type, header) ==
  IF type = REPAIR
  THEN SomeHeader(ACCOUNT_FIELDS, header) \/ SomeHeader(INBOUND_FIELDS, header)
  ELSE \/ SomeHeader(REPAIR_FIELDS, header)
       \/ (type # INBOUND /\ SomeHeader(INBOUND_FIELDS, header))

\* the last three lines of the map callback: the value under a header that
\* names no field, or a field the payload has no value for
Fallback(lowerText, type, id) ==
  IF lowerText = "id" THEN id
  ELSE IF lowerText = "type" THEN Str(type)
  ELSE Str("")

\* the value under a header that names a field; val is the first value the
\* payload holds under the field's keys
FieldValue(matchedField, val, fallback, type, payload) ==
  IF matchedField.header = "total" THEN CalculatedTotal(payload)
  ELSE IF matchedField.header = "quantity" THEN Quantity(payload)
  ELSE IF matchedField.header = "unitPrice" THEN UnitPrice(payload)
  ELSE IF Suppressed(type, matchedField.header) THEN Str("")
  ELSE IF val # Undef
       THEN IF matchedField.header \in {"shifou_baofei", "shifou_shouhuo"}
            THEN Bool(Truthy(val))
            ELSE val
       ELSE fallback

\* the map callback, given the field the header names
MatchedValue(matchedField, fallback, type, payload) ==
  IF matchedField # NoField
  THEN FieldValue(matchedField, FirstKeyValue(matchedField.keys, payload, 1),
                  fallback, type, payload)
  ELSE fallback

\* the value processRowData writes under one header
CellValue(h, type, payload, id) ==
  MatchedValue(MatchedFieldOf(h), Fallback(ToLowerCase(Trim(h)), type, id),
               type, payload)

\* processRowData(sheet, type, payload, id): one value per current header
processRowData(sheet, type, payload, id) ==
  [i \in 1..LastColumn(sheet) |-> CellValue(sheet.hdr[i], type, payload, id)]

\* sheet.appendRow(rowData): the row goes below the last row
appendRow(sheet, rowData) == [sheet EXCEPT !.rows = Append(@, rowData)]

\* sheet.getRange(rowIdx, 1, 1, rowData.length).setValues([rowData]), for the
\* data row at position pos (sheet row pos + 1)
setRow(sheet, pos, rowData) ==
  LET old == sheet.rows[pos]
      width == IF Len(old) > Len(rowData) THEN Len(old) ELSE Len(rowData)
  IN [sheet EXCEPT !.rows[pos] =
        [j \in 1..width |-> IF j <= Len(rowData) THEN rowData[j] ELSE old[j]]]

\* sheet.deleteRow(pos + 1): the rows below move up
deleteRow(sheet, pos) ==
  [sheet EXCEPT !.rows =
     [j \in 1..(Len(@) - 1) |-> IF j < pos THEN @[j] ELSE @[j + 1]]]

\* ss.getSheetByName(type), created with the common headers when missing
SheetOrNew(ss, type) ==
  IF ss[type].exists THEN ss[type]
  ELSE [exists |-> TRUE, hdr |-> Headers(COMMON_FIELDS), rows |-> <<>>]

\* Faulty variant of IdMatches: the first cell starts with the id
IdMatchesPrefix(row, id) ==
  LET cell == Trim(ToStringJS(Cell(row, 1)))
  IN Len(cell) >= Len(id) /\ SubSeq(cell, 1, Len(id)) = id

\* String(values[i][0]).trim() === id
IdMatches(row, id) == Trim(ToStringJS(Cell(row, 1))) = id

\* Faulty variant of FirstMatch: the scan starts below the first data row
FirstMatchFromSecond(rows, id) ==
  IF \E i \in 2..Len(rows) : IdMatches(rows[i], id)
  THEN CHOOSE i \in 2..Len(rows) :
         /\ IdMatches(rows[i], id)
         /\ \A j \in 2..(i - 1) : ~IdMatches(rows[j], id)
  ELSE 0

\* the update scan: the first data row, top to bottom, whose first cell is the
\* id; 0 when there is none (rowIdx = -1 in the source)
FirstMatch(rows, id) ==
  IF \E i \in 1..Len(rows) : IdMatches(rows[i], id)
  THEN CHOOSE i \in 1..Len(rows) :
         /\ IdMatches(rows[i], id)
         /\ \A j \in 1..(i - 1) : ~IdMatches(rows[j], id)
  ELSE 0

\* the delete scan of one sheet: v is the snapshot read before the loop, i runs
\* from the last row up, and each match deletes the sheet row at that index
RECURSIVE DeleteScan(_, _, _, _)
DeleteScan(sheet, v, i, id) ==
  IF i < 1 THEN sheet
  ELSE DeleteScan(IF IdMatches(v[i], id) THEN deleteRow(sheet, i) ELSE sheet,
                  v, i - 1, id)

DeleteFromSheet(sheet, id) ==
  IF sheet.exists THEN DeleteScan(sheet, sheet.rows, Len(sheet.rows), id)
  ELSE sheet

\* doPost, lines 179-198, for the sheet of the call as getSheetByName or
\* insertSheet gave it (new) and as ensureHeaders left it (sheet): the
\* spreadsheet after the call, with what the call did (pos: the data row
\* written, 0 for none; rowIdx: the scan result of update; missing: headers
\* appended; created: sheet created)
doPostAction(ss, params, id, new, sheet, rowData, rowIdx) ==
  CASE params.action = "insert" ->
         [ss |-> [ss EXCEPT ![params.type] = appendRow(sheet, rowData)],
          pos |-> Len(sheet.rows) + 1, rowIdx |-> 0,
          missing |-> Len(sheet.hdr) - Len(new.hdr),
          created |-> ~ss[params.type].exists]
    [] params.action = "update" ->
         [ss |-> [ss EXCEPT ![params.type] =
                    IF rowIdx # 0 THEN setRow(sheet, rowIdx, rowData)
                    ELSE appendRow(sheet, rowData)],
          pos |-> IF rowIdx # 0 THEN rowIdx ELSE Len(sheet.rows) + 1,
          rowIdx |-> rowIdx,
          missing |-> Len(sheet.hdr) - Len(new.hdr),
          created |-> ~ss[params.type].exists]
    [] params.action = "delete" ->
         [ss |-> [cat \in Categories |->
                    DeleteFromSheet(IF cat = params.type THEN sheet ELSE ss[cat], id)],
          pos |-> 0, rowIdx |-> 0,
          missing |-> Len(sheet.hdr) - Len(new.hdr),
          created |-> ~ss[params.type].exists]
    [] OTHER ->
         [ss |-> [ss EXCEPT ![params.type] = sheet], pos |-> 0, rowIdx |-> 0,
          missing |-> Len(sheet.hdr) - Len(new.hdr),
          created |-> ~ss[params.type].exists]

\* doPost, lines 179-186: the row to write and the update scan
doPostSheet(ss, params, id, new, sheet) ==
  doPostAction(ss, params, id, new, sheet,
               processRowData(sheet, params.type, params.data, Str(id)),
               FirstMatch(sheet.rows, id))

\* doPost, actions insert / update / delete: lines 170-177, then the action
doPost(ss, params) ==
  doPostSheet(ss, params, Trim(ToStringJS(params.id)),
              SheetOrNew(ss, params.type),
              ensureHeaders(SheetOrNew(ss, params.type), params.type))

\* doPost, action batch_insert, one item: acc carries the spreadsheet and the
\* rows written so far; new and sheet are the item's sheet as found or created
\* and as ensureHeaders left it
BatchAppend(acc, item, k, type, new, sheet) ==
  [ss |-> [acc.ss EXCEPT ![type] =
             appendRow(sheet, processRowData(sheet, type, item, Get(item, "id")))],
   writes |-> Append(acc.writes,
                     [type |-> type, pos |-> Len(sheet.rows) + 1, item |-> k]),
   missing |-> acc.missing + (Len(sheet.hdr) - Len(new.hdr)),
   created |-> acc.created \/ ~acc.ss[type].exists]

BatchItem(acc, item, k, type) ==
  BatchAppend(acc, item, k, type, SheetOrNew(acc.ss, type),
              ensureHeaders(SheetOrNew(acc.ss, type), type))

\* doPost, action batch_insert: list.forEach, item k of the list onwards
RECURSIVE BatchInsert(_, _, _)
BatchInsert(acc, list, k) ==
  IF k > Len(list) THEN acc
  ELSE BatchInsert(BatchItem(acc, list[k], k, ToStringJS(Get(list[k], "type"))),
                   list, k + 1)

(***************************************************************************)
(* The facade: src/services/dbService.ts                                   *)
(***************************************************************************)
\* a calendar date as the date inputs of the forms and the facade write it:
\* YYYY-MM-DD with a month 01..12 and a day 01..28
IsISODate(t) ==
  /\ Len(t) = 10
  /\ \A i \in {1, 2, 3, 4, 6, 7, 9, 10} : IsDigit(SubSeq(t, i, i))
  /\ SubSeq(t, 5, 5) = "-"
  /\ SubSeq(t, 8, 8) = "-"
  /\ DigitsVal(SubSeq(t, 6, 7), 0) \in 1..12
  /\ DigitsVal(SubSeq(t, 9, 10), 0) \in 1..28

\* the date texts the model's transactions carry, classified once
KnownDates == {"2024-03-01"}

IsISODateTable == [t \in KnownDates |-> IsISODate(t)]

IsISODateOf(t) == IF t \in KnownDates THEN IsISODateTable[t] ELSE IsISODate(t)

\* toTaipeiISO(dateStr) for the values the model carries, which are calendar
\* dates and texts that new Date() cannot parse: a falsy or unparsable value
\* gives "", a calendar date (midnight UTC, the same day in Taipei) gives itself
toTaipeiISO(dateStr) ==
  IF ~Truthy(dateStr) THEN Str("")
  ELSE IF dateStr.k = "string" /\ IsISODateOf(dateStr.s) THEN dateStr
  ELSE Str("")

DateKeys == {"date", "sentDate", "repairDate", "installDate"}

\* { ...tx, date: toTaipeiISO(tx.date), sentDate: ..., repairDate: ...,
\*   installDate: ... } as the backend parses it from the request body
WireData(tx) ==
  JsonObject([key \in Keys |->
                IF key \in DateKeys THEN toTaipeiISO(tx[key]) ELSE tx[key]])

\* the request body postToCloud sends
postToCloud(action, id, type, transaction) ==
  [action |-> action,
   id |-> Str(Trim(ToStringJS(id))),
   type |-> type,
   data |-> IF action = "delete" THEN EmptyObject ELSE WireData(transaction)]

\* the request body batchSave sends: the list of items
batchSave(txList) ==
  [k \in 1..Len(txList) |-> WireData(txList[k])]

\* doGet, one data row: the object keyed by the trimmed header texts (a later
\* column wins a repeated text), then obj.id and obj.type
doGetRow(headers, row, cat) ==
  LET obj == [key \in Keys |->
                LET idxs == {idx \in 1..Len(headers) : Trim(headers[idx]) = key}
                IN IF idxs = {} THEN Undef
                   ELSE Cell(row, CHOOSE idx \in idxs : \A j \in idxs : j <= idx)]
      id == Or(Or(Or(obj["id"], obj["ID"]), obj["bianhao"]), Cell(row, 1))
  IN With(With(obj, "id", id), "type", Str(cat))

\* doGet: the rows of every existing sheet, in the order of CATEGORIES, as the
\* client parses them from the response body
RECURSIVE doGetFrom(_, _)
doGetFrom(ss, c) ==
  IF c > Len(CATEGORIES) THEN <<>>
  ELSE LET cat == CATEGORIES[c]
           sheet == ss[cat]
       IN (IF sheet.exists
           THEN [i \in 1..Len(sheet.rows) |->
                   JsonObject(doGetRow(sheet.hdr, sheet.rows[i], cat))]
           ELSE <<>>)
          \o doGetFrom(ss, c + 1)

doGet(ss) == doGetFrom(ss, 1)

\* parseBool(val)
parseBool(val) ==
  IF val = Bool(TRUE) \/ val = Num(1) \/ val = Str("true") THEN TRUE
  ELSE IF val.k = "string"
       THEN ToUpperCase(Trim(val.s)) \in {"TRUE", "1", "YES", "shi"}
       ELSE FALSE

\* fetchAll, the mapping of one item of the response (index counts from 0)
FetchItem(item, index) ==
  LET type == Or(Or(item["type"], item["leibie"]), Str(INBOUND))
      unitPrice == ToNumber(Or(Or(Or(Or(item["unitPrice"], item["danjia"]),
                                     item["weixiu_danjia"]), item["feiyong"]), Num(0)))
      quantity == ToNumber(Or(Or(item["quantity"], item["shuliang"]), Num(1)))
      total == ToNumber(Or(Or(Or(Or(Or(item["total"], item["zonge"]),
                                    item["weixiu_zonge"]), item["xiaoji"]),
                              item["jiesuan_zonge"]), Mul(unitPrice, quantity)))
      String(v) == Str(ToStringJS(v))
  IN Object([
       id |-> Str(Trim(ToStringJS(Or(Or(Or(item["id"], item["ID"]), item["bianhao"]),
                                     Str("row-" \o NatToString(index + 1)))))),
       date |-> toTaipeiISO(Or(item["date"], item["riqi"])),
       type |-> type,
       accountCategory |->
         String(Or(Or(item["zhangmu_leibie"], item["accountCategory"]), Str("A"))),
       materialName |->
         String(Or(Or(Or(item["materialName"], item["liaojian_mingcheng"]),
                      item["weixiu_lingjian/zhuti"]), Str("weimingming"))),
       materialNumber |->
         String(Or(Or(Or(item["materialNumber"], item["liaojian_bianhao"]),
                      item["liaojian_bianhao(PN)"]), Str(""))),
       machineCategory |->
         String(Or(Or(item["jitai_zhonglei"], item["machineCategory"]), Str("BA"))),
       machineNumber |->
         String(Or(Or(Or(item["jitai_bianhao"], item["machineNumber"]),
                      item["jitai ID"]), Str(""))),
       sn |-> String(Or(Or(Or(item["sn"], item["xuhao"]), item["shebei_xuhao(SN)"]),
                        Str(""))),
       quantity |-> quantity,
       unitPrice |-> unitPrice,
       total |-> total,
       note |-> String(Or(Or(item["note"], item["beizhu"]), Str(""))),
       operator |-> String(Or(Or(item["caozuo_renyuan"], item["operator"]), Str("xitong"))),
       faultReason |->
         String(Or(Or(item["guzhang_yuanyin"], item["faultReason"]), Str(""))),
       isScrapped |-> Bool(parseBool(Or(item["isScrapped"], item["shifou_baofei"]))),
       isReceived |-> Bool(parseBool(Or(item["isReceived"], item["shifou_shouhuo"]))),
       sentDate |-> toTaipeiISO(Or(item["songxiu_riqi"], item["sentDate"])),
       repairDate |-> toTaipeiISO(Or(item["wanxiu_riqi"], item["repairDate"])),
       installDate |-> toTaipeiISO(Or(item["shangji_riqi"], item["installDate"]))])

\* fetchAll when the request succeeds: the transactions of the response
fetchAll(ss) ==
  LET data == doGet(ss)
  IN [k \in 1..Len(data) |-> FetchItem(data[k], k - 1)]

(***************************************************************************)
(* The clients: the transactions the forms submit                          *)
(* (src/components/TransactionForm.tsx, src/components/BatchAddForm.tsx)   *)
(* and request bodies sent to the endpoint by other means.                 *)
(***************************************************************************)
\* TransactionForm.handleSubmit: { ...formData, id, quantity, unitPrice,
\* total: qty * price, operator: currentUser }, before the id is set
TransactionFormTx(type, qty, price, isReceived) ==
  Object([date |-> Str("2024-03-01"), type |-> Str(type), accountCategory |-> Str("A"),
   materialName |-> Str("m"), materialNumber |-> Str(""),
   machineCategory |-> Str("BA"), machineNumber |-> Str(""),
   quantity |-> Num(qty), unitPrice |-> Num(price), total |-> Num(qty * price),
   note |-> Str(""), operator |-> Str("u"), isReceived |-> Bool(isReceived)])

\* RepairForm.handleSubmit for a record that is not scrapped
RepairFormTx(qty, price) ==
  Object([date |-> Str("2024-03-01"), type |-> Str(REPAIR),
   materialName |-> Str("m"), materialNumber |-> Str(""),
   machineCategory |-> Str("BA"), machineNumber |-> Str(""), sn |-> Str("s"),
   quantity |-> Num(qty), unitPrice |-> Num(price), total |-> Num(qty * price),
   note |-> Str(""), operator |-> Str("u"), faultReason |-> Str("f"),
   isScrapped |-> Bool(FALSE), sentDate |-> Str("2024-03-01"),
   repairDate |-> Str(""), installDate |-> Str(""), accountCategory |-> Str("")])

\* BatchAddForm.handleSubmit for one row; sn and faultReason keep what was
\* typed while the row's type was REPAIR
BatchRowTx(type, qty, price, sn, faultReason) ==
  Object([date |-> Str("2024-03-01"), type |-> Str(type),
   accountCategory |-> IF type = REPAIR THEN Str("") ELSE Str("A"),
   materialName |-> Str("m"), materialNumber |-> Str(""),
   machineCategory |-> Str("BA"), machineNumber |-> Str(""),
   sn |-> Str(sn), faultReason |-> Str(faultReason),
   quantity |-> Num(qty), unitPrice |-> Num(price), total |-> Num(qty * price),
   note |-> Str(""), operator |-> Str("u"), isReceived |-> Bool(FALSE)])

\* The transactions submitted.  1-4 and 8 are what the forms build (the
\* quantity inputs of TransactionForm and RepairForm sit in a form with
\* min="1"; BatchAddForm submits from a button, whatever its inputs hold); 5-7
\* are bodies the endpoint accepts from any caller (a forged total, a quantity
\* that is null, absent or not a number, fields of another category); 9 is a
\* TransactionForm record whose date input was cleared.
Templates == <<
  TransactionFormTx(USAGE, 2, 3, FALSE),
  TransactionFormTx(INBOUND, 1, 3, TRUE),
  RepairFormTx(1, 5),
  BatchRowTx(CONSTRUCTION, 0 - 2, 3, "s", "f"),
  With(With(With(With(RepairFormTx(1, 3), "quantity", Null), "total", Num(99)),
            "accountCategory", Str("A")), "isReceived", Bool(TRUE)),
  With(With(Without(TransactionFormTx(USAGE, 1, 3, FALSE), "quantity"),
            "total", Num(99)), "faultReason", Str("f")),
  With(TransactionFormTx(CONSTRUCTION, 1, 3, FALSE), "quantity", Str("x")),
  BatchRowTx(REPAIR, 0, 5, "s", "f"),
  With(TransactionFormTx(USAGE, 1, 3, FALSE), "date", Str("")) >>

\* the templates the forms can build
FormTemplates == {1, 2, 3, 4, 8}

\* the templates BatchAddForm builds
BatchTemplates == {4, 8}

\* single-record and batch submissions under Spec
SpecSingle == {1, 2}

SpecBatch == {4}

\* single-record and batch submissions under SpecWrite
WriteSingle == {1, 2, 3, 5, 6, 7}

WriteBatch == BatchTemplates

\* Date.now() at the n-th id generation; the values are chosen so that an
\* earlier id is a proper prefix of a later one
Clock(n) == IF n = 1 THEN 1 ELSE 10 * (n - 1)

\* the id a form gives a new record: 'TX' + Date.now() (TransactionForm),
\* 'RP' + Date.now() (RepairForm), 'TX-B' + Date.now() + random (BatchAddForm)
NewId(t, n) ==
  IF t \in BatchTemplates THEN "TX-B" \o NatToString(Clock(n)) \o "r"
  ELSE IF Templates[t].type = Str(REPAIR) /\ t \in FormTemplates
       THEN "RP" \o NatToString(Clock(n))
  ELSE "TX" \o NatToString(Clock(n))

TotalRows(ss) ==
  Len(ss[INBOUND].rows) + Len(ss[USAGE].rows)
  + Len(ss[CONSTRUCTION].rows) + Len(ss[REPAIR].rows)

\* A sheet that an earlier deployment left behind: one layout for every
\* category, alias header texts, no operator column, no data rows.
LegacySheet == [exists |-> TRUE, hdr |-> LegacyHeaders, rows |-> <<>>]

NoWrites == <<>>

\* what the last call did: the rows it wrote, the update scan's result, the
\* headers appended, whether a sheet was created, the rows removed per sheet
NoRemoved == [cat \in Categories |-> 0]

Removed(before, after) ==
  [cat \in Categories |-> Len(before[cat].rows) - Len(after[cat].rows)]

\* no form is mounted
NoForm == [open |-> "", formData |-> EmptyObject, initialData |-> EmptyObject,
           rows |-> <<>>]

\* the facade has not been called
NoCall == [op |-> "", session |-> "", user |-> "", password |-> "",
           form |-> "", formData |-> EmptyObject, arg |-> EmptyObject, list |-> <<>>,
           value |-> <<>>, outcome |-> "", retry |-> "", applied |-> FALSE,
           result |-> FALSE, message |-> Undef, threw |-> FALSE, requests |-> 0]

\* no view has been rendered
NoView == [shown |-> ""]

\* App before anything was loaded: no transactions, no cache item, no
\* loadData call under way, nothing rendered
InitLocal ==
  /\ transactions = <<>>
  /\ cache = <<>>
  /\ pending = <<>>
  /\ running = <<>>
  /\ view = NoView

\* the spreadsheet before the first call: empty, or with the sheets an
\* earlier deployment left behind
InitStore ==
  /\ \E legacy \in {{}, {CONSTRUCTION, REPAIR}} :
       sheets = [cat \in Categories |->
                   IF cat \in legacy THEN LegacySheet ELSE NoSheet]
  /\ last = [op |-> "init", type |-> "", id |-> "", writes |-> NoWrites,
             rowIdx |-> 0, missing |-> 0, created |-> FALSE,
             removed |-> NoRemoved]
  /\ issued = <<>>

\* a client whose session storage holds the user "u"
Init ==
  /\ InitStore
  /\ currentUser = "u"
  /\ form = NoForm
  /\ call = NoCall
  /\ InitLocal

\* handleAction -> dbService.save(tx) -> doPost insert, for a new record
Save(t, bound) ==
  /\ Len(issued) < bound
  /\ \E tx \in {With(Templates[t], "id", Str(NewId(t, Len(issued) + 1)))} :
       \E r \in {doPost(sheets, postToCloud("insert", tx["id"], tx["type"].s, tx))} :
         /\ TotalRows(r.ss) <= bound
         /\ sheets' = r.ss
         /\ last' = [op |-> "insert", type |-> tx["type"].s, id |-> tx["id"].s,
                     writes |-> <<[type |-> tx["type"].s, pos |-> r.pos,
                                   tpl |-> t, id |-> tx["id"].s]>>,
                     rowIdx |-> r.rowIdx, missing |-> r.missing,
                     created |-> r.created, removed |-> NoRemoved]
         /\ issued' = Append(issued, tx["id"].s)

\* handleAction -> dbService.update(tx) -> doPost update, for a record the
\* client holds (the form may have changed its category)
Update(t, i, bound) ==
  /\ i \in 1..Len(issued)
  /\ \E tx \in {With(Templates[t], "id", Str(issued[i]))} :
       \E r \in {doPost(sheets, postToCloud("update", tx["id"], tx["type"].s, tx))} :
         /\ TotalRows(r.ss) <= bound
         /\ sheets' = r.ss
         /\ last' = [op |-> "update", type |-> tx["type"].s, id |-> tx["id"].s,
                     writes |-> <<[type |-> tx["type"].s, pos |-> r.pos,
                                   tpl |-> t, id |-> tx["id"].s]>>,
                     rowIdx |-> r.rowIdx, missing |-> r.missing,
                     created |-> r.created, removed |-> NoRemoved]
         /\ UNCHANGED issued

\* confirmDelete -> dbService.delete(id, type) -> doPost delete
Delete(i, type) ==
  /\ i \in 1..Len(issued)
  /\ \E r \in {doPost(sheets, postToCloud("delete", Str(issued[i]), type, EmptyObject))} :
       /\ sheets' = r.ss
       /\ last' = [op |-> "delete", type |-> type, id |-> issued[i],
                   writes |-> NoWrites, rowIdx |-> 0, missing |-> r.missing,
                   created |-> r.created, removed |-> Removed(sheets, r.ss)]
       /\ UNCHANGED issued

\* the ids BatchAddForm gives the rows of a batch
BatchIds(tpls, n) == [k \in 1..Len(tpls) |-> NewId(tpls[k], n + k)]

\* onBatchSave -> dbService.batchSave(list) -> doPost batch_insert
BatchSave(tpls, bound) ==
  /\ Len(issued) + Len(tpls) <= bound
  /\ \E ids \in {BatchIds(tpls, Len(issued))} :
       \E r \in {BatchInsert([ss |-> sheets, writes |-> <<>>, missing |-> 0,
                              created |-> FALSE],
                             batchSave([k \in 1..Len(tpls) |->
                                          With(Templates[tpls[k]], "id", Str(ids[k]))]),
                             1)} :
         /\ TotalRows(r.ss) <= bound
         /\ sheets' = r.ss
         /\ last' = [op |-> "batch_insert", type |-> "", id |-> "",
                     writes |-> [k \in 1..Len(r.writes) |->
                                   [type |-> r.writes[k].type,
                                    pos |-> r.writes[k].pos,
                                    tpl |-> tpls[r.writes[k].item],
                                    id |-> ids[r.writes[k].item]]],
                     rowIdx |-> 0, missing |-> r.missing, created |-> r.created,
                     removed |-> NoRemoved]
         /\ issued' = issued \o ids

\* the categories a delete call names under Spec: one that single-record
\* submissions write to, one that only a delete call touches
DeleteTypes == {INBOUND, REPAIR}

\* the batches of at most bound items
BatchLists(tpls, bound) == UNION {[1..n -> tpls] : n \in 1..bound}

\* the facade operations, in any order
Next ==
  \/ \E t \in SpecSingle : Save(t, MaxRows) /\ UNCHANGED client
  \/ \E t \in SpecSingle : \E i \in 1..MaxRows :
       Update(t, i, MaxRows) /\ UNCHANGED client
  \/ \E i \in 1..MaxRows : \E type \in DeleteTypes :
       Delete(i, type) /\ UNCHANGED client
  \/ \E tpls \in BatchLists(SpecBatch, MaxRows) :
       BatchSave(tpls, MaxRows) /\ UNCHANGED client

Spec == Init /\ [][Next]_vars

\* the write operations with every request body
NextWrite ==
  \/ \E t \in WriteSingle : Save(t, MaxWrites) /\ UNCHANGED client
  \/ \E t \in WriteSingle : \E i \in 1..MaxWrites :
       Update(t, i, MaxWrites) /\ UNCHANGED client
  \/ \E tpls \in BatchLists(WriteBatch, MaxWrites) :
       BatchSave(tpls, MaxWrites) /\ UNCHANGED client

SpecWrite == Init /\ [][NextWrite]_vars

(***************************************************************************)
(* What the stored rows and the last call are read by.                     *)
(***************************************************************************)
\* the columns of a header row that hold the field with that header, found as
\* processRowData finds the field of a column
Columns(hdr, fieldHeader) ==
  {i \in 1..Len(hdr) : MatchedFieldOf(hdr[i]).header = fieldHeader}

\* the id a stored row carries: the text of its first cell
RowId(row) == ToStringJS(Cell(row, 1))

\* the fields of a Transaction
TransactionKeys ==
  {"id", "date", "type", "accountCategory", "materialName", "materialNumber",
   "machineCategory", "machineNumber", "sn", "quantity", "unitPrice", "total",
   "note", "operator", "faultReason", "isScrapped", "isReceived", "sentDate",
   "repairDate", "installDate"}

\* the transaction the client submitted for a write of the last call
Submitted(w) == With(Templates[w.tpl], "id", Str(w.id))

\* the stored row a write of the last call produced
Stored(w) == sheets[w.type].rows[w.pos]

\* the writes of the last call
Writes == {last.writes[k] : k \in 1..Len(last.writes)}

\* the stored rows: sheet and position
AllRows ==
  UNION {{<<cat, i>> : i \in 1..Len(sheets[cat].rows)} : cat \in Categories}

(***************************************************************************)
(* The total column.                                                       *)
(***************************************************************************)
\* C1: every sheet that holds rows has a total, a quantity and a unit price
\* column, and in every stored row (each was written by insert, update or
\* batch_insert) every total cell is the row's quantity cell times its unit
\* price cell; a write whose payload carries another total stores the product,
\* not the payload's total.
C1_TotalIsProduct ==
  /\ \A rc \in AllRows :
       LET hdr == sheets[rc[1]].hdr
           row == sheets[rc[1]].rows[rc[2]]
       IN /\ Columns(hdr, "total") # {}
          /\ Columns(hdr, "quantity") # {}
          /\ Columns(hdr, "unitPrice") # {}
          /\ \A t \in Columns(hdr, "total") :
               \A q \in Columns(hdr, "quantity") :
                 \A p \in Columns(hdr, "unitPrice") :
                   Cell(row, t) = Mul(Cell(row, q), Cell(row, p))
  /\ \A w \in Writes :
       LET supplied == Submitted(w)["total"]
           product == Mul(Quantity(WireData(Submitted(w))),
                          UnitPrice(WireData(Submitted(w))))
       IN \A t \in Columns(sheets[w.type].hdr, "total") :
            /\ Cell(Stored(w), t) = product
            /\ supplied # product => Cell(Stored(w), t) # supplied

\* a payload with a total of 99 for one item at 3 was written, and 3 is stored
C1_ForgedTotalWritten ==
  \E w \in Writes :
    /\ Submitted(w)["total"] = Num(99)
    /\ \E t \in Columns(sheets[w.type].hdr, "total") : Cell(Stored(w), t) = Num(3)

(***************************************************************************)
(* Ids.                                                                    *)
(***************************************************************************)
\* C2: no two stored rows, in the same sheet or in two sheets, carry the same
\* id.
C2_IdsUnique ==
  \A a \in AllRows : \A b \in AllRows :
    a # b => RowId(sheets[a[1]].rows[a[2]]) # RowId(sheets[b[1]].rows[b[2]])

\* C3: a delete call leaves in every sheet exactly the rows whose id is not the
\* id of the call, in their order, whatever category the call names.
C3_DeleteExact ==
  [][last'.op = "delete" =>
       \A cat \in Categories :
         sheets'[cat].rows =
           SelectSeq(sheets[cat].rows, LAMBDA row : RowId(row) # last'.id)]_vars

\* a delete call removed rows of its id from two sheets
C3_DeletedInTwoSheets ==
  /\ last.op = "delete"
  /\ Cardinality({cat \in Categories : last.removed[cat] > 0}) >= 2

C5_RoundTrip ==
  (last.op = "insert" /\ last.writes[1].tpl \in FormTemplates) =>
    LET tx == Submitted(last.writes[1])
        read == fetchAll(sheets)
    IN \E k \in 1..Len(read) :
         /\ read[k]["id"] = tx["id"]
         /\ \A key \in TransactionKeys : tx[key] # Undef => read[k][key] = tx[key]

(***************************************************************************)
(* Category-specific fields and the quantity.                              *)
(***************************************************************************)
\* C6: in every stored row of a sheet other than the REPAIR sheet the fault
\* reason, sent date, repair date, install date and serial number cells are
\* empty; in every stored row of the REPAIR sheet the account category and
\* received cells are empty.
C6_OtherCategoryFieldsBlank ==
  \A rc \in AllRows :
    LET hdr == sheets[rc[1]].hdr
        row == sheets[rc[1]].rows[rc[2]]
        blank == IF rc[1] # REPAIR
                 THEN {"guzhang_yuanyin", "songxiu_riqi", "wanxiu_riqi",
                       "shangji_riqi", "sn"}
                 ELSE {"zhangmu_leibie", "shifou_shouhuo"}
    IN \A f \in blank : \A i \in Columns(hdr, f) : Cell(row, i) = Str("")

\* a REPAIR payload with an account category and a received flag was written
\* to a sheet with columns for both, and a row of another category whose
\* payload holds a serial number and a fault reason is stored in a sheet with
\* columns for both
C6_ForeignFieldsSubmitted ==
  /\ \E w \in Writes :
       /\ w.type = REPAIR
       /\ Submitted(w)["accountCategory"] = Str("A")
       /\ Submitted(w)["isReceived"] = Bool(TRUE)
       /\ Columns(sheets[REPAIR].hdr, "zhangmu_leibie") # {}
       /\ Columns(sheets[REPAIR].hdr, "shifou_shouhuo") # {}
  /\ Columns(sheets[CONSTRUCTION].hdr, "guzhang_yuanyin") # {}
  /\ Columns(sheets[CONSTRUCTION].hdr, "sn") # {}
  /\ \E i \in 1..Len(sheets[CONSTRUCTION].rows) :
       /\ Len(RowId(sheets[CONSTRUCTION].rows[i])) >= 4
       /\ SubSeq(RowId(sheets[CONSTRUCTION].rows[i]), 1, 4) = "TX-B"

\* C7: a write whose payload has no quantity, or null, or 0, stores 1 in the
\* quantity cell of its row.
C7_QuantityDefaultsToOne ==
  \A w \in Writes :
    Submitted(w)["quantity"] \in {Undef, Null, Num(0)} =>
      /\ Columns(sheets[w.type].hdr, "quantity") # {}
      /\ \A q \in Columns(sheets[w.type].hdr, "quantity") : Cell(Stored(w), q) = Num(1)

\* a batch item with quantity 0 was written below a row, and it holds 1
C7_ZeroQuantityBatchItem ==
  \E w \in Writes :
    /\ last.op = "batch_insert"
    /\ Submitted(w)["quantity"] = Num(0)
    /\ w.pos = 2
    /\ \A q \in Columns(sheets[w.type].hdr, "quantity") : Cell(Stored(w), q) = Num(1)

\* C8: the quantity cell of every stored row holds an integer that is at least
\* 1.
C8_QuantityPositive ==
  \A rc \in AllRows :
    LET hdr == sheets[rc[1]].hdr
        row == sheets[rc[1]].rows[rc[2]]
    IN \A q \in Columns(hdr, "quantity") :
         Cell(row, q).k = "number" /\ Cell(row, q).n >= 1

(***************************************************************************)
(* The header row.                                                         *)
(***************************************************************************)
\* C9: on every sheet, header resolution for the sheet's category run twice in
\* a row appends nothing the second time, and no two columns of a header row
\* name the same field.
C9_HeadersIdempotentNoDuplicate ==
  \A cat \in Categories :
    sheets[cat].exists =>
      LET once == ensureHeaders(sheets[cat], cat)
          hdr == sheets[cat].hdr
      IN /\ ensureHeaders(once, cat) = once
         /\ \A i \in 1..Len(hdr) : \A j \in 1..Len(hdr) :
              (i # j /\ MatchedFieldOf(hdr[i]) # NoField) =>
                MatchedFieldOf(hdr[i]) # MatchedFieldOf(hdr[j])

\* a delete call that names REPAIR resolved the headers of the REPAIR sheet an
\* earlier deployment left, whose columns carry alias texts, and appended to it
C9_AliasSheetResolved ==
  /\ last.op = "delete"
  /\ last.type = REPAIR
  /\ Len(sheets[REPAIR].hdr) > Len(LegacyHeaders)
  /\ SubSeq(sheets[REPAIR].hdr, 1, Len(LegacyHeaders)) = LegacyHeaders

\* C10: the header row of a sheet before a call is a prefix of its header row
\* after the call.
C10_HeaderOnlyAppended ==
  [][\A cat \in Categories :
       sheets[cat].exists =>
         /\ sheets'[cat].exists
         /\ Len(sheets'[cat].hdr) >= Len(sheets[cat].hdr)
         /\ SubSeq(sheets'[cat].hdr, 1, Len(sheets[cat].hdr)) = sheets[cat].hdr]_vars

\* a batch call appended a header to a sheet that existed
C10_HeaderAppendedToExisting ==
  /\ last.op = "batch_insert"
  /\ last.missing > 0
  /\ ~last.created

(***************************************************************************)
(* The forms: src/components/BatchAddForm.tsx (BatchAddForm, RepairForm),  *)
(* src/components/TransactionForm.tsx, mounted by src/App.tsx.             *)
(***************************************************************************)
\* most records the forms submit under SpecForms
MaxForms == 1

\* String.prototype.startsWith
StartsWith(t, prefix) ==
  Len(t) >= Len(prefix) /\ SubSeq(t, 1, Len(prefix)) = prefix

\* String.prototype.includes, for a search text that is not empty
IncludesText(t, sub) ==
  \E i \in 1..(Len(t) - Len(sub) + 1) : SubSeq(t, i, i + Len(sub) - 1) = sub

\* the word RepairForm looks for in the note, and the marker it puts in front
ScrapWord == "baofei"

ScrapMarker == "[baofei]"

\* getTaipeiToday()
Today == "2024-03-01"

\* RepairForm, useState: the fields of a new repair record
RepairFormData(user) ==
  Object([date |-> Str(Today), type |-> Str(REPAIR), materialName |-> Str(""),
          materialNumber |-> Str(""), machineCategory |-> Str("BA"),
          machineNumber |-> Str(""), sn |-> Str(""), quantity |-> Num(1),
          unitPrice |-> Num(0), note |-> Str(""), operator |-> Str(user),
          faultReason |-> Str(""), isScrapped |-> Bool(FALSE),
          sentDate |-> Str(""), repairDate |-> Str(""), installDate |-> Str("")])

\* { ...a, ...b }
Spread(a, b) == [key \in Keys |-> IF b[key] # Undef THEN b[key] ELSE a[key]]

\* RepairForm, useEffect with initialData: { ...formData, ...initialData,
\* date, operator, isScrapped, unitPrice }
RepairFormEdit(initialData, user) ==
  [Spread(RepairFormData(user), initialData) EXCEPT
     !["date"] = Or(initialData["date"], Str(Today)),
     !["operator"] = Or(initialData["operator"], Str(user)),
     !["isScrapped"] = Bool(Truthy(initialData["isScrapped"])),
     !["unitPrice"] = Or(initialData["unitPrice"], Num(0))]

\* RepairForm.handleSubmit, finalNote
FinalNote(formData) ==
  IF Truthy(formData["isScrapped"])
     /\ ~IncludesText(Trim(formData["note"].s), ScrapWord)
  THEN Trim(ScrapMarker \o Trim(formData["note"].s))
  ELSE Trim(formData["note"].s)

\* Faulty variant of FinalPrice: the price the form holds
FinalPriceKept(formData) == ToNumber(formData["unitPrice"])

\* RepairForm.handleSubmit, finalPrice
FinalPrice(formData) ==
  IF Truthy(formData["isScrapped"]) THEN Num(0)
  ELSE ToNumber(formData["unitPrice"])

\* RepairForm.handleSubmit: the transaction handed to onSave; now is Date.now()
RepairFormHandleSubmit(formData, initialData, user, now) ==
  [formData EXCEPT
     !["note"] = Str(FinalNote(formData)),
     !["id"] = Or(initialData["id"], Str("RP" \o NatToString(now))),
     !["unitPrice"] = FinalPrice(formData),
     !["total"] = Mul(ToNumber(formData["quantity"]), FinalPrice(formData)),
     !["operator"] = Str(user),
     !["isScrapped"] = Bool(Truthy(formData["isScrapped"])),
     !["repairDate"] =
        IF Truthy(formData["isScrapped"]) THEN Str("") ELSE formData["repairDate"],
     !["installDate"] =
        IF Truthy(formData["isScrapped"]) THEN Str("") ELSE formData["installDate"],
     !["accountCategory"] = Str("")]

\* TransactionForm, useState: the fields of a new record
TransactionFormData(user) ==
  Object([date |-> Str(Today), type |-> Str(USAGE), accountCategory |-> Str("A"),
          materialName |-> Str(""), materialNumber |-> Str(""),
          machineCategory |-> Str("BA"), machineNumber |-> Str(""),
          quantity |-> Num(1), unitPrice |-> Num(0), note |-> Str(""),
          operator |-> Str(user), isReceived |-> Bool(FALSE)])

\* TransactionForm, useEffect with initialData
TransactionFormEdit(initialData, user) ==
  Object([date |-> Or(initialData["date"], Str(Today)),
          type |-> IF initialData["type"] = Str(REPAIR) THEN Str(USAGE)
                   ELSE initialData["type"],
          accountCategory |-> Or(initialData["accountCategory"], Str("A")),
          materialName |-> Str(ToStringJS(Or(initialData["materialName"], Str("")))),
          materialNumber |-> Str(ToStringJS(Or(initialData["materialNumber"], Str("")))),
          machineCategory |->
            Str(ToStringJS(Or(initialData["machineCategory"], Str("BA")))),
          machineNumber |-> Str(ToStringJS(Or(initialData["machineNumber"], Str("")))),
          quantity |-> Or(ToNumber(initialData["quantity"]), Num(0)),
          unitPrice |-> Or(ToNumber(initialData["unitPrice"]), Num(0)),
          note |-> Str(ToStringJS(Or(initialData["note"], Str("")))),
          operator |-> Or(initialData["operator"], Str(user)),
          isReceived |-> IF initialData["isReceived"] # Undef
                         THEN Bool(Truthy(initialData["isReceived"]))
                         ELSE Bool(FALSE)])

\* Faulty variant of TransactionFormHandleSubmit: the operator the form holds
TransactionFormHandleSubmitKeepingOperator(formData, initialData, user, now) ==
  [formData EXCEPT
     !["id"] = Or(initialData["id"], Str("TX" \o NatToString(now))),
     !["quantity"] = Or(ToNumber(formData["quantity"]), Num(0)),
     !["unitPrice"] = Or(ToNumber(formData["unitPrice"]), Num(0)),
     !["total"] = Mul(Or(ToNumber(formData["quantity"]), Num(0)),
                      Or(ToNumber(formData["unitPrice"]), Num(0)))]

\* TransactionForm.handleSubmit: the transaction handed to onSave
TransactionFormHandleSubmit(formData, initialData, user, now) ==
  [formData EXCEPT
     !["id"] = Or(initialData["id"], Str("TX" \o NatToString(now))),
     !["quantity"] = Or(ToNumber(formData["quantity"]), Num(0)),
     !["unitPrice"] = Or(ToNumber(formData["unitPrice"]), Num(0)),
     !["total"] = Mul(Or(ToNumber(formData["quantity"]), Num(0)),
                      Or(ToNumber(formData["unitPrice"]), Num(0))),
     !["operator"] = Str(user)]

\* BatchAddForm, useState: the first row (its id is a random text)
BatchRow(user) ==
  Object([id |-> Str("r"), date |-> Str(Today), type |-> Str(USAGE),
          accountCategory |-> Str("A"), materialName |-> Str(""),
          materialNumber |-> Str(""), machineCategory |-> Str("BA"),
          machineNumber |-> Str(""), sn |-> Str(""), faultReason |-> Str(""),
          quantity |-> Num(1), unitPrice |-> Num(0), note |-> Str(""),
          operator |-> Str(user), isReceived |-> Bool(FALSE)])

\* BatchAddForm.addRow: a copy of the first row, blanked, goes in front
addRow(rows, user) ==
  <<[rows[1] EXCEPT !["id"] = Str("r"), !["materialName"] = Str(""),
                    !["materialNumber"] = Str(""), !["sn"] = Str(""),
                    !["faultReason"] = Str(""), !["note"] = Str(""),
                    !["quantity"] = Num(1), !["operator"] = Str(user),
                    !["isReceived"] = Bool(FALSE)]>> \o rows

\* rows.filter(r => r.materialName.trim())
ValidRows(rows) == SelectSeq(rows, LAMBDA r : Trim(r["materialName"].s) # "")

\* BatchAddForm.handleSubmit, the map callback for one valid row; the id ends
\* in a random text
BatchRowTransaction(row, user, now) ==
  [row EXCEPT
     !["id"] = Str("TX-B" \o NatToString(now) \o "r"),
     !["quantity"] = ToNumber(row["quantity"]),
     !["unitPrice"] = ToNumber(row["unitPrice"]),
     !["total"] = Mul(ToNumber(row["quantity"]), ToNumber(row["unitPrice"])),
     !["accountCategory"] = IF row["type"] = Str(REPAIR) THEN Str("")
                            ELSE Or(row["accountCategory"], Str("A")),
     !["operator"] = Str(user)]

\* validRows.map(...): item k is built at the n + k-th reading of the clock
BatchPayload(validRows, user, n) ==
  [k \in 1..Len(validRows) |-> BatchRowTransaction(validRows[k], user, Clock(n + k))]

\* BatchAddForm.handleSubmit: the payload handed to onBatchSave
BatchAddFormHandleSubmit(rows, user, n) == BatchPayload(ValidRows(rows), user, n)

\* getTaipeiDate(dateInput) for the dates fetchAll returns: no date is today
getTaipeiDate(date) == IF Truthy(date) THEN date ELSE Str(Today)

\* loadData: data.map(t => ({ ...t, date: getTaipeiDate(t.date) }))
Formatted(data) ==
  [k \in 1..Len(data) |-> With(data[k], "date", getTaipeiDate(data[k]["date"]))]

\* the transactions the client holds after loadData has read the store
Transactions(ss) == Formatted(fetchAll(ss))

\* loadData, lines 95-100: the list App holds once fetchAll has given data
\* (prev is the list it held before)
LoadedTransactions(data, prev) == IF Len(data) > 0 THEN Formatted(data) ELSE prev

\* JSON.stringify(formatted) as localStorage keeps it and JSON.parse reads it
CacheItem(list) == [k \in 1..Len(list) |-> JsonObject(list[k])]

\* loadData, lines 95-100: the cache item once fetchAll has given data
LoadedCache(data, prev) ==
  IF Len(data) > 0 THEN CacheItem(Formatted(data)) ELSE prev

\* handleAction, setTransactions after a call that returned true
ActedTransactions(prev, tx, isUpdate) ==
  IF isUpdate
  THEN [k \in 1..Len(prev) |-> IF prev[k]["id"] = tx["id"] THEN tx ELSE prev[k]]
  ELSE <<tx>> \o prev

(***************************************************************************)
(* Login: doPost action login (src/GAS_BACKEND.js), dbService.verifyLogin, *)
(* LoginScreen.handleLogin (src/unnamed/part_000), App.handleLogout.       *)
(***************************************************************************)
\* the script property MASTER_PASSWORD as the script initialises it
MASTER_PASSWORD == "Jumbo.net"

\* the users LoginScreen offers (the first two of AUTHORIZED_USERS)
AUTHORIZED_USERS == {"Mountain", "Uri"}

\* the passwords typed: the secret, a text that differs in case, the empty text
Passwords == {"Jumbo.net", "jumbo.net", ""}

\* what becomes of a request: the script ran and its response arrived ("ok"),
\* fetch rejected with 'Failed to fetch' ("failed"), the response had a status
\* outside 200-299 ("status"), or a body that is not JSON ("body"); in the last
\* three the script did not run
Outcomes == {"ok", "failed", "status", "body"}

\* Faulty variant of doPostLogin: any password of the secret's length passes
doPostLoginByLength(payload) ==
  IF Len(payload.password) = Len(MASTER_PASSWORD)
  THEN [authorized |-> Bool(TRUE), message |-> Undef]
  ELSE [authorized |-> Bool(FALSE), message |-> Str("mima_bu_zhengque")]

\* doPost, action login: the response body
doPostLogin(payload) ==
  IF payload.password = MASTER_PASSWORD
  THEN [authorized |-> Bool(TRUE), message |-> Undef]
  ELSE [authorized |-> Bool(FALSE), message |-> Str("mima_bu_zhengque")]

\* dbService.verifyLogin(username, password): what it resolves to
verifyLogin(username, password, outcome) ==
  IF outcome = "failed"
  THEN [authorized |-> FALSE, message |-> Str("lianxian_shibai")]
  ELSE IF outcome = "status"
  THEN [authorized |-> FALSE, message |-> Str("xitong_lianxian_yichang: HTTP")]
  ELSE IF outcome = "body"
  THEN [authorized |-> FALSE, message |-> Str("xitong_lianxian_yichang: Unexpected token")]
  ELSE [authorized |->
          doPostLogin([username |-> username, password |-> password]).authorized
            = Bool(TRUE),
        message |->
          doPostLogin([username |-> username, password |-> password]).message]

\* LoginScreen.handleLogin, and onLogin when the response is authorized
handleLogin(selectedUser, password, outcome) ==
  /\ currentUser = ""
  /\ \E response \in {verifyLogin(selectedUser, password, outcome)} :
       /\ currentUser' = IF response.authorized THEN selectedUser ELSE ""
       /\ call' = [NoCall EXCEPT !.op = "login", !.user = selectedUser,
                                 !.password = password, !.outcome = outcome,
                                 !.result = response.authorized,
                                 !.message = response.message]
  /\ UNCHANGED <<sheets, last, issued, form, local>>

\* App.handleLogout: the session ends and the forms unmount
handleLogout ==
  /\ currentUser # ""
  /\ currentUser' = ""
  /\ form' = NoForm
  /\ transactions' = <<>>
  /\ cache' = <<>>
  /\ UNCHANGED <<sheets, last, issued, call, pending, view, running>>

(***************************************************************************)
(* The forms at work.                                                      *)
(***************************************************************************)
\* setActiveTab: the tab's form mounts with the fields of a new record
OpenForm(kind) ==
  /\ currentUser # ""
  /\ form' = [open |-> kind,
              formData |-> IF kind = "RepairForm" THEN RepairFormData(currentUser)
                           ELSE IF kind = "TransactionForm"
                                THEN TransactionFormData(currentUser)
                           ELSE EmptyObject,
              initialData |-> EmptyObject,
              rows |-> IF kind = "BatchAddForm" THEN <<BatchRow(currentUser)>>
                       ELSE <<>>]
  /\ UNCHANGED <<sheets, last, issued, currentUser, call, local>>

\* setEditingTransaction(t) for a transaction the client holds: RepairForm
\* mounts for a REPAIR record, TransactionForm for any other
EditTransaction(k) ==
  /\ currentUser # ""
  /\ \E data \in {Transactions(sheets)} :
       /\ k \in 1..Len(data)
       /\ form' = IF data[k]["type"] = Str(REPAIR)
                  THEN [open |-> "RepairForm",
                        formData |-> RepairFormEdit(data[k], currentUser),
                        initialData |-> data[k], rows |-> <<>>]
                  ELSE [open |-> "TransactionForm",
                        formData |-> TransactionFormEdit(data[k], currentUser),
                        initialData |-> data[k], rows |-> <<>>]
  /\ UNCHANGED <<sheets, last, issued, currentUser, call, local>>

\* what the user enters in RepairForm, one text or switch per field
RepairInputs ==
  {<<"materialName", Str("m")>>, <<"faultReason", Str("f")>>,
   <<"note", Str(" n ")>>, <<"note", Str("yi baofei")>>,
   <<"isScrapped", Bool(TRUE)>>, <<"unitPrice", Num(5)>>, <<"repairDate", Str(Today)>>,
   <<"installDate", Str(Today)>>}

\* what the user enters in TransactionForm
TransactionInputs ==
  {<<"materialName", Str("m")>>, <<"type", Str(INBOUND)>>, <<"unitPrice", Num(3)>>}

\* what the user enters in a row of BatchAddForm
BatchInputs == {<<"materialName", Str("m")>>, <<"type", Str(REPAIR)>>}

\* the ways to fill a form: at most one entry per field; the name and the
\* fault reason are entered in a new record's form and left as they are in an
\* edited record's form
Fills(inputs, required, isNew) ==
  {fill \in SUBSET inputs :
     /\ \A x \in fill : \A y \in fill : x[1] = y[1] => x = y
     /\ \A f \in required : (\E x \in fill : x[1] = f) <=> isNew}

\* the onChange handlers, setFormData({ ...formData, [field]: value }), applied
\* for every entry of a fill (the price and the dates of RepairForm are
\* entered before the scrap switch is turned on: their inputs are disabled or
\* hidden afterwards)
Filled(formData, fill) ==
  [key \in Keys |->
     IF \E x \in fill : x[1] = key
     THEN (CHOOSE x \in fill : x[1] = key)[2]
     ELSE formData[key]]

\* BatchAddForm.updateRow(index, field, value) for every entry of a fill
FilledRow(rows, index, fill) == [rows EXCEPT ![index] = Filled(@, fill)]

\* the ways to fill BatchAddForm: the first row filled, or the first row
\* filled, then a row added in front of it and filled
BatchFills ==
  {<<fill>> : fill \in SUBSET BatchInputs}
  \cup ((SUBSET BatchInputs) \X (SUBSET BatchInputs))

\* the rows BatchAddForm holds after a filling
BatchRows(fills, user) ==
  IF Len(fills) = 1 THEN FilledRow(<<BatchRow(user)>>, 1, fills[1])
  ELSE FilledRow(addRow(FilledRow(<<BatchRow(user)>>, 1, fills[1]), user), 1, fills[2])

\* App.handleAction(tx): dbService.update for a record the client holds,
\* dbService.save for a new one; the request reaches the script
handleAction(tx, isUpdate, formData, bound) ==
  /\ isUpdate \/ Len(issued) < bound
  /\ \E action \in {IF isUpdate THEN "update" ELSE "insert"} :
       \E r \in {doPost(sheets, postToCloud(action, tx["id"], tx["type"].s, tx))} :
         /\ TotalRows(r.ss) <= bound
         /\ sheets' = r.ss
         /\ last' = [op |-> action, type |-> tx["type"].s, id |-> tx["id"].s,
                     writes |-> <<[type |-> tx["type"].s, pos |-> r.pos,
                                   tpl |-> 0, id |-> tx["id"].s]>>,
                     rowIdx |-> r.rowIdx, missing |-> r.missing,
                     created |-> r.created, removed |-> NoRemoved]
         /\ issued' = IF isUpdate THEN issued ELSE Append(issued, tx["id"].s)
         /\ call' = [NoCall EXCEPT !.op = action, !.session = currentUser,
                                   !.form = form.open,
                                   !.formData = formData, !.arg = tx,
                                   !.outcome = "ok", !.applied = TRUE,
                                   !.result = TRUE]
         /\ transactions' = ActedTransactions(transactions, tx, isUpdate)
         /\ UNCHANGED cache

\* RepairForm.handleSubmit on a form the user has filled (the form needs a
\* name and a fault reason to submit).  A new record's form is blanked
\* afterwards, an edited record's form closes.
SubmitRepairForm(fill, bound) ==
  /\ form.open = "RepairForm"
  /\ fill \in Fills(RepairInputs, {"materialName", "faultReason"},
                    ~Truthy(form.initialData["id"]))
  /\ \E formData \in {Filled(form.formData, fill)} :
       handleAction(RepairFormHandleSubmit(formData, form.initialData,
                                           currentUser, Clock(Len(issued) + 1)),
                    Truthy(form.initialData["id"]), formData, bound)
  /\ form' = IF Truthy(form.initialData["id"]) THEN NoForm
             ELSE [form EXCEPT !.formData = RepairFormData(currentUser)]
  /\ UNCHANGED <<currentUser, pending, view, running>>

\* TransactionForm.handleSubmit on a form the user has filled
SubmitTransactionForm(fill, bound) ==
  /\ form.open = "TransactionForm"
  /\ fill \in Fills(TransactionInputs, {"materialName"},
                    ~Truthy(form.initialData["id"]))
  /\ \E formData \in {Filled(form.formData, fill)} :
       /\ Trim(formData["materialName"].s) # ""
       /\ handleAction(TransactionFormHandleSubmit(formData, form.initialData,
                                                   currentUser,
                                                   Clock(Len(issued) + 1)),
                       Truthy(form.initialData["id"]), formData, bound)
       /\ form' = IF Truthy(form.initialData["id"]) THEN NoForm
                  ELSE [form EXCEPT !.formData =
                          [formData EXCEPT !["materialName"] = Str(""),
                                           !["materialNumber"] = Str(""),
                                           !["machineNumber"] = Str(""),
                                           !["quantity"] = Num(1),
                                           !["unitPrice"] = Num(0),
                                           !["note"] = Str(""),
                                           !["isReceived"] = Bool(FALSE)]]
  /\ UNCHANGED <<currentUser, pending, view, running>>

\* BatchAddForm.handleSubmit on the rows the user has filled -> onBatchSave ->
\* dbService.batchSave -> doPost batch_insert; the tab changes once the save
\* has succeeded
SubmitBatchForm(fills, bound) ==
  /\ form.open = "BatchAddForm"
  /\ \E payload \in {BatchAddFormHandleSubmit(BatchRows(fills, currentUser),
                                               currentUser, Len(issued))} :
       /\ Len(payload) > 0
       /\ Len(issued) + Len(payload) <= bound
       /\ \E r \in {BatchInsert([ss |-> sheets, writes |-> <<>>, missing |-> 0,
                                 created |-> FALSE], batchSave(payload), 1)} :
            /\ TotalRows(r.ss) <= bound
            /\ sheets' = r.ss
            /\ last' = [op |-> "batch_insert", type |-> "", id |-> "",
                        writes |-> [k \in 1..Len(r.writes) |->
                                      [type |-> r.writes[k].type,
                                       pos |-> r.writes[k].pos, tpl |-> 0,
                                       id |-> payload[r.writes[k].item]["id"].s]],
                        rowIdx |-> 0, missing |-> r.missing,
                        created |-> r.created, removed |-> NoRemoved]
            /\ issued' = issued \o [k \in 1..Len(payload) |-> payload[k]["id"].s]
            /\ call' = [NoCall EXCEPT !.op = "batch_insert",
                                      !.session = currentUser,
                                      !.form = form.open, !.list = payload,
                                      !.outcome = "ok", !.applied = TRUE,
                                      !.result = TRUE]
            /\ \E data \in {fetchAll(r.ss)} :
                 /\ transactions' = LoadedTransactions(data, transactions)
                 /\ cache' = LoadedCache(data, cache)
  /\ form' = NoForm
  /\ UNCHANGED <<currentUser, pending, view, running>>

FormKinds == {"RepairForm", "TransactionForm", "BatchAddForm"}

\* an empty spreadsheet, and nobody is logged in
InitForms ==
  /\ sheets = [cat \in Categories |-> NoSheet]
  /\ last = [op |-> "init", type |-> "", id |-> "", writes |-> NoWrites,
             rowIdx |-> 0, missing |-> 0, created |-> FALSE,
             removed |-> NoRemoved]
  /\ issued = <<>>
  /\ currentUser = ""
  /\ form = NoForm
  /\ call = NoCall
  /\ InitLocal

\* the client: users log in and out, fill the forms and submit them
NextForms ==
  \/ \E u \in AUTHORIZED_USERS : handleLogin(u, MASTER_PASSWORD, "ok")
  \/ handleLogout
  \/ \E kind \in FormKinds : OpenForm(kind)
  \/ \E k \in 1..MaxForms : EditTransaction(k)
  \/ \E fill \in SUBSET RepairInputs : SubmitRepairForm(fill, MaxForms)
  \/ \E fill \in SUBSET TransactionInputs : SubmitTransactionForm(fill, MaxForms)
  \/ \E fills \in BatchFills : SubmitBatchForm(fills, MaxForms)

SpecForms == InitForms /\ [][NextForms]_vars

(***************************************************************************)
(* The repair form and the operator of a submission.                       *)
(***************************************************************************)
\* the last call was a submission of RepairForm with the scrap switch on
ScrappedRepairSubmitted ==
  /\ call.op \in {"insert", "update"}
  /\ call.form = "RepairForm"
  /\ Truthy(call.formData["isScrapped"])

\* the cells of a stored row under the columns of a field
FieldCells(w, fieldHeader) ==
  {Cell(Stored(w), c) : c \in Columns(sheets[w.type].hdr, fieldHeader)}

\* C11: after RepairForm is submitted with the scrap switch on, the submitted
\* transaction has unit price 0, total 0 and empty repair and install dates,
\* and the row the store holds for it has 0 in its unit price and total
\* columns and the empty text in its repair date and install date columns,
\* whatever price and dates the form held.
C11_ScrappedRepairWrittenBlank ==
  ScrappedRepairSubmitted =>
    /\ call.arg["unitPrice"] = Num(0)
    /\ call.arg["total"] = Num(0)
    /\ call.arg["repairDate"] = Str("")
    /\ call.arg["installDate"] = Str("")
    /\ \A w \in Writes :
         /\ FieldCells(w, "unitPrice") = {Num(0)}
         /\ FieldCells(w, "total") = {Num(0)}
         /\ FieldCells(w, "wanxiu_riqi") = {Str("")}
         /\ FieldCells(w, "shangji_riqi") = {Str("")}

\* a scrapped repair was submitted from a form that held a price of 5 and both
\* dates, and its row was written
C11_PricedDatedScrapWritten ==
  /\ ScrappedRepairSubmitted
  /\ call.formData["unitPrice"] = Num(5)
  /\ call.formData["repairDate"] = Str(Today)
  /\ call.formData["installDate"] = Str(Today)
  /\ \E w \in Writes : FieldCells(w, "unitPrice") = {Num(0)}

\* the number of places of a text where the marker starts
MarkerCount(t) ==
  Cardinality({i \in 1..Len(t) :
                 /\ i + Len(ScrapMarker) - 1 <= Len(t)
                 /\ SubSeq(t, i, i + Len(ScrapMarker) - 1) = ScrapMarker})

\* C12: after RepairForm is submitted with the scrap switch on, the note of
\* the submitted transaction starts with the scrap marker and holds the marker
\* once, whatever the note of the form was (the note of an already scrapped
\* record included).
C12_MarkerOnce ==
  ScrappedRepairSubmitted =>
    /\ StartsWith(call.arg["note"].s, ScrapMarker)
    /\ MarkerCount(call.arg["note"].s) = 1

\* C19: the transaction a form submits, and every transaction of a submitted
\* batch, has the session user as its operator, whatever operator the form
\* state or the edited record held.
C19_OperatorIsSessionUser ==
  /\ call.op \in {"insert", "update"} => call.arg["operator"] = Str(call.session)
  /\ call.op = "batch_insert" =>
       \A k \in 1..Len(call.list) : call.list[k]["operator"] = Str(call.session)

\* TransactionForm was submitted for a record whose operator is another user
C19_OtherUsersRecordSubmitted ==
  /\ call.op = "update"
  /\ call.form = "TransactionForm"
  /\ call.formData["operator"] # Str(call.session)
  /\ call.arg["operator"] = Str(call.session)

(***************************************************************************)
(* Reading: dbService.fetchAll with what can become of its request.       *)
(***************************************************************************)
\* fetchAll(signal, retries = 1)
Retries == 1

\* what becomes of the GET request of one attempt: the outcomes of a POST,
\* where "ok" is a response whose body is a JSON array; a response whose body
\* is JSON but no array ("notarray"); the caller's signal aborted the request
\* ("abort")
FetchOutcomes == Outcomes \cup {"notarray", "abort"}

\* data.map(...): reading a property of an item that is null throws a
\* TypeError, and then no transaction is returned
FetchRows(data) ==
  IF \E k \in 1..Len(data) : data[k] = Null
  THEN [threw |-> TRUE, value |-> <<>>]
  ELSE [threw |-> FALSE, value |-> [k \in 1..Len(data) |-> FetchItem(data[k], k - 1)]]

\* fetchWithRetry(attempt): the try block when nothing is thrown, and the
\* catch block; rows is what data.map gives for the body of the response
RECURSIVE fetchWithRetry(_, _, _)
fetchWithRetry(attempt, outcomes, rows) ==
  IF outcomes[attempt + 1] = "notarray" THEN [threw |-> FALSE, value |-> <<>>]
  ELSE IF outcomes[attempt + 1] = "ok" /\ ~rows.threw THEN rows
  ELSE IF outcomes[attempt + 1] = "abort" THEN [threw |-> TRUE, value |-> <<>>]
  ELSE IF attempt < Retries THEN fetchWithRetry(attempt + 1, outcomes, rows)
  ELSE [threw |-> TRUE, value |-> <<>>]

\* whether fetchWithRetry(0) makes a second attempt
Retried(outcomes, rows) ==
  \/ outcomes[1] \in {"failed", "status", "body"}
  \/ outcomes[1] = "ok" /\ rows.threw

\* Faulty variant of fetchAllSettled: the rejection of fetchWithRetry(0) is
\* passed on
fetchAllUncaught(outcomes, rows) == fetchWithRetry(0, outcomes, rows)

\* fetchAll: fetchWithRetry(0).catch(() => []), as the caller sees it settle
fetchAllSettled(outcomes, rows) ==
  IF fetchWithRetry(0, outcomes, rows).threw THEN [threw |-> FALSE, value |-> <<>>]
  ELSE fetchWithRetry(0, outcomes, rows)

\* two populated values a raw row can hold under the keys of a field
FieldSamples(header) ==
  IF header \in {"shifou_baofei", "shifou_shouhuo"} THEN <<Str("NO"), Str("YES")>>
  ELSE IF header \in {"quantity", "unitPrice", "total"} THEN <<Num(2), Num(7)>>
  ELSE IF header \in {"date", "songxiu_riqi", "wanxiu_riqi", "shangji_riqi"}
       THEN <<Str("2024-03-01"), Str("2024-03-02")>>
  ELSE IF header = "type" THEN <<Str(USAGE), Str(REPAIR)>>
  ELSE <<Str("a"), Str("b")>>

\* a raw row as doGet returns it, with an id and a type
RawRow == With(With(EmptyObject, "id", Str("TX1")), "type", Str(USAGE))

\* the raw rows that hold one value under the first key of a field and
\* another under a later key of it, for every field and later key
RawRows ==
  {With(With(RawRow, AllFieldDefinitions[c[1]].keys[1],
             FieldSamples(AllFieldDefinitions[c[1]].header)[c[3]]),
        AllFieldDefinitions[c[1]].keys[c[2]],
        FieldSamples(AllFieldDefinitions[c[1]].header)[3 - c[3]]) :
     c \in {c \in (1..Len(AllFieldDefinitions)) \X (2..5) \X (1..2) :
              c[2] <= Len(AllFieldDefinitions[c[1]].keys)}}

\* the response bodies that are arrays: a raw row, alone or next to an item
\* that is null
Bodies ==
  {<<row>> : row \in RawRows}
  \cup {<<Null, row>> : row \in RawRows}
  \cup {<<row, Null>> : row \in RawRows}

\* the endpoint is about to answer a GET with one of the bodies
InitFetch ==
  /\ sheets = [cat \in Categories |-> NoSheet]
  /\ last = [op |-> "init", type |-> "", id |-> "", writes |-> NoWrites,
             rowIdx |-> 0, missing |-> 0, created |-> FALSE,
             removed |-> NoRemoved]
  /\ issued = <<>>
  /\ currentUser = "u"
  /\ form = NoForm
  /\ \E data \in Bodies : call = [NoCall EXCEPT !.op = "response", !.list = data]
  /\ InitLocal

\* dbService.fetchAll(): attempt k meets outcomes[k]
FetchAll ==
  /\ call.op = "response"
  /\ \E rows \in {FetchRows(call.list)} :
       \E outcomes \in FetchOutcomes \X FetchOutcomes :
         \E r \in {fetchAllSettled(outcomes, rows)} :
           call' = [call EXCEPT !.op = "fetchAll", !.session = currentUser,
                                !.outcome = outcomes[1],
                                !.retry = IF Retried(outcomes, rows)
                                          THEN outcomes[2] ELSE "",
                                !.threw = r.threw, !.value = r.value]
  /\ UNCHANGED <<sheets, last, issued, currentUser, form, local>>

NextFetch == FetchAll

SpecFetch == InitFetch /\ [][NextFetch]_vars

(***************************************************************************)
(* What fetchAll gives its caller.                                         *)
(***************************************************************************)
\* the outcome of the last attempt of the last fetchAll call
LastAttempt == IF call.retry # "" THEN call.retry ELSE call.outcome

\* C13: when a raw row holds a value under the first key of a field of the
\* alias table and another under a later key of that field, fetchAll reads the
\* row as it reads the row without the later key: the value under the first
\* key is the one read back, for every field, the scrap and receipt flags
\* included.
C13_FirstKeyReadBack ==
  (call.op = "fetchAll" /\ LastAttempt = "ok" /\ ~FetchRows(call.list).threw) =>
    \A k \in 1..Len(call.list) :
      \A i \in 1..Len(AllFieldDefinitions) :
        \A j \in 2..Len(AllFieldDefinitions[i].keys) :
          (/\ Truthy(call.list[k][AllFieldDefinitions[i].keys[1]])
           /\ Truthy(call.list[k][AllFieldDefinitions[i].keys[j]])) =>
            call.value[k] =
              FetchItem(Without(call.list[k], AllFieldDefinitions[i].keys[j]), k - 1)

\* C15: fetchAll settles without throwing, and when its last attempt met a
\* network failure, a status that is not OK, a body that is not JSON, a body
\* that is no array or an aborted request, it gives the empty list.
C15_FetchAllFailsSoft ==
  call.op = "fetchAll" =>
    /\ ~call.threw
    /\ LastAttempt \in {"failed", "status", "body", "notarray", "abort"} =>
         call.value = <<>>

\* a fetchAll call failed on both attempts, or was aborted, and gave the empty
\* list
C15_FailedTwiceOrAborted ==
  /\ call.op = "fetchAll"
  /\ \/ call.outcome = "failed" /\ call.retry = "status"
     \/ call.outcome = "abort"
  /\ ~call.threw
  /\ call.value = <<>>

\* the items of a response that are rows (not null)
WellFormed(data) == SelectSeq(data, LAMBDA item : item # Null)

\* C16: when every attempt of fetchAll got a response whose array holds rows
\* and items that cannot be read, fetchAll gives one transaction for each row,
\* in order, and none for the other items.
C16_FailingRowsSkipped ==
  (call.op = "fetchAll" /\ call.outcome = "ok" /\ call.retry \in {"", "ok"}) =>
    /\ Len(call.value) = Len(WellFormed(call.list))
    /\ \A k \in 1..Len(call.value) :
         call.value[k]["id"] = WellFormed(call.list)[k]["id"]

(***************************************************************************)
(* The endpoint and the facade with what can become of a request: calls of *)
(* the logged-in client, and requests sent to the endpoint by a caller     *)
(* that holds no session.                                                  *)
(***************************************************************************)
\* most data rows the spreadsheet holds under SpecFacade
MaxCalls == 1

\* most data rows the spreadsheet holds under SpecEndpoint
MaxDirect == 2

\* what becomes of a POST request: the outcomes above, where "ok" is a run of
\* the script to its last line, and "error": the script threw before its first
\* write (the spreadsheet service failed) and answered { result: "error" }
PostOutcomes == Outcomes \cup {"error"}

\* postToCloud(...): the boolean it resolves to
postToCloudSettled(outcome) == outcome # "failed"

\* batchSave(transactions): the boolean it resolves to
batchSaveSettled(txList, outcome) ==
  Len(txList) # 0 /\ outcome # "failed"

\* the position of the first item of a batch_insert list that is null (reading
\* item.type throws there); past the end when there is none
FirstFailing(list) ==
  IF \E k \in 1..Len(list) : list[k] = Null
  THEN CHOOSE k \in 1..Len(list) :
         list[k] = Null /\ \A j \in 1..(k - 1) : list[j] # Null
  ELSE Len(list) + 1

\* Faulty variant of Processed: a failing item is skipped
ProcessedSkipping(list) == SelectSeq(list, LAMBDA item : item # Null)

\* list.forEach: the items processed before the callback throws
Processed(list) == SubSeq(list, 1, FirstFailing(list) - 1)

\* doPost, action batch_insert, for a list that may hold failing items: the
\* rows written before the exception stay, and the catch block answers
doPostBatchInsert(ss, list) ==
  BatchInsert([ss |-> ss, writes |-> <<>>, missing |-> 0, created |-> FALSE],
              Processed(list), 1)

\* the single-record bodies and the batch items of the calls under SpecFacade
FacadeSingle == {1}

FacadeBatch == {4}

\* dbService.save(tx) by the logged-in client
SaveCall(t, outcome, bound) ==
  /\ currentUser # ""
  /\ IF outcome = "ok" THEN Save(t, bound) ELSE UNCHANGED <<sheets, last, issued>>
  /\ call' = [NoCall EXCEPT !.op = "insert", !.session = currentUser,
                            !.outcome = outcome, !.applied = (outcome = "ok"),
                            !.result = postToCloudSettled(outcome)]
  /\ UNCHANGED <<currentUser, form, local>>

\* dbService.update(tx) by the logged-in client
UpdateCall(t, i, outcome, bound) ==
  /\ currentUser # ""
  /\ i \in 1..Len(issued)
  /\ IF outcome = "ok" THEN Update(t, i, bound)
     ELSE UNCHANGED <<sheets, last, issued>>
  /\ call' = [NoCall EXCEPT !.op = "update", !.session = currentUser,
                            !.outcome = outcome, !.applied = (outcome = "ok"),
                            !.result = postToCloudSettled(outcome)]
  /\ UNCHANGED <<currentUser, form, local>>

\* dbService.delete(id, type) by the logged-in client
DeleteCall(i, type, outcome) ==
  /\ currentUser # ""
  /\ i \in 1..Len(issued)
  /\ IF outcome = "ok" THEN Delete(i, type) ELSE UNCHANGED <<sheets, last, issued>>
  /\ call' = [NoCall EXCEPT !.op = "delete", !.session = currentUser,
                            !.outcome = outcome, !.applied = (outcome = "ok"),
                            !.result = postToCloudSettled(outcome)]
  /\ UNCHANGED <<currentUser, form, local>>

\* the body of the batch_insert request batchSave sends for a list of
\* transactions built from templates
BatchBody(tpls, n) ==
  batchSave([k \in 1..Len(tpls) |->
               With(Templates[tpls[k]], "id", Str(NewId(tpls[k], n + k)))])

\* dbService.batchSave(list) by the logged-in client
BatchSaveCall(tpls, outcome, bound) ==
  /\ currentUser # ""
  /\ IF outcome = "ok" THEN BatchSave(tpls, bound)
     ELSE UNCHANGED <<sheets, last, issued>>
  /\ call' = [NoCall EXCEPT !.op = "batch_insert", !.session = currentUser,
                            !.list = BatchBody(tpls, Len(issued)),
                            !.outcome = outcome, !.applied = (outcome = "ok"),
                            !.result = batchSaveSettled(tpls, outcome)]
  /\ UNCHANGED <<currentUser, form, local>>

\* loadData -> dbService.fetchAll() by the logged-in client; every attempt
\* that reaches the script is answered by doGet
LoadData(attempts) ==
  /\ currentUser # ""
  /\ \E data \in {doGet(sheets)} :
       \E rows \in {FetchRows(data)} :
         \E outcomes \in attempts :
           \E r \in {fetchAllSettled(outcomes, rows)} :
             /\ call' = [NoCall EXCEPT !.op = "fetchAll", !.session = currentUser,
                                       !.list = data, !.outcome = outcomes[1],
                                       !.retry = IF Retried(outcomes, rows)
                                                 THEN outcomes[2] ELSE "",
                                       !.applied = (r.value # <<>>),
                                       !.threw = r.threw, !.value = r.value]
             /\ transactions' = LoadedTransactions(r.value, transactions)
             /\ cache' = LoadedCache(r.value, cache)
  /\ UNCHANGED <<sheets, last, issued, currentUser, form, pending, view, running>>

\* doGet(e) for a GET request that a caller without a session sends to the
\* endpoint
DirectGet ==
  /\ call' = [NoCall EXCEPT !.op = "fetchAll", !.list = doGet(sheets),
                            !.outcome = "ok", !.applied = TRUE]
  /\ UNCHANGED <<sheets, last, issued, currentUser, form, local>>

\* doPost(e) for an insert request that a caller without a session sends
DirectPost(t, bound) ==
  /\ Save(t, bound)
  /\ call' = [NoCall EXCEPT !.op = "insert", !.outcome = "ok", !.applied = TRUE]
  /\ UNCHANGED <<currentUser, form, local>>

\* the batch_insert lists a caller sends: 0 stands for an item that is null;
\* the lists of one or two items, and the lists of three whose second item is
\* null and follows an item that is not
DirectItems == {4, 8, 0}

DirectLists ==
  UNION {[1..n -> DirectItems] : n \in 1..2}
    \cup {items \in [1..3 -> DirectItems] : items[1] # 0 /\ items[2] = 0}

\* doPost(e) for a batch_insert request that a caller without a session
\* sends; its list may hold items that are null
DirectBatch(items, bound) ==
  /\ \E list \in {[k \in 1..Len(items) |->
                     IF items[k] = 0 THEN Null
                     ELSE WireData(With(Templates[items[k]], "id",
                                        Str(NewId(items[k], Len(issued) + k))))]} :
       \E done \in {Processed(list)} : \E r \in {doPostBatchInsert(sheets, list)} :
         /\ TotalRows(r.ss) <= bound
         /\ sheets' = r.ss
         /\ last' = [op |-> "batch_insert", type |-> "", id |-> "",
                     writes |-> [k \in 1..Len(r.writes) |->
                                   [type |-> r.writes[k].type,
                                    pos |-> r.writes[k].pos,
                                    tpl |-> items[r.writes[k].item],
                                    id |-> done[r.writes[k].item]["id"].s]],
                     rowIdx |-> 0, missing |-> r.missing, created |-> r.created,
                     removed |-> NoRemoved]
         /\ issued' = issued \o [k \in 1..Len(r.writes) |->
                                   done[r.writes[k].item]["id"].s]
         /\ call' = [NoCall EXCEPT !.op = "batch_insert", !.list = list,
                                   !.outcome = "ok",
                                   !.applied = (FirstFailing(list) > Len(list))]
  /\ UNCHANGED <<currentUser, form, local>>

\* the client logs in and out and calls the facade, and its requests meet
\* every outcome
NextFacade ==
  \/ \E u \in AUTHORIZED_USERS : \E password \in Passwords : \E outcome \in Outcomes :
       handleLogin(u, password, outcome)
  \/ handleLogout
  \/ \E t \in FacadeSingle : \E outcome \in PostOutcomes :
       SaveCall(t, outcome, MaxCalls)
  \/ \E t \in FacadeSingle : \E i \in 1..MaxCalls : \E outcome \in PostOutcomes :
       UpdateCall(t, i, outcome, MaxCalls)
  \/ \E i \in 1..MaxCalls : \E outcome \in PostOutcomes :
       DeleteCall(i, USAGE, outcome)
  \/ \E tpls \in BatchLists(FacadeBatch, MaxCalls) : \E outcome \in PostOutcomes :
       BatchSaveCall(tpls, outcome, MaxCalls)
  \/ LoadData(FetchOutcomes \X FetchOutcomes)

SpecFacade == InitForms /\ [][NextFacade]_vars

\* the client logs in and out and calls the facade, its requests reach the
\* script; other callers send requests to the endpoint
NextEndpoint ==
  \/ \E password \in {MASTER_PASSWORD, ""} : handleLogin("Mountain", password, "ok")
  \/ handleLogout
  \/ \E t \in FacadeSingle : SaveCall(t, "ok", MaxDirect)
  \/ \E i \in 1..MaxDirect : DeleteCall(i, USAGE, "ok")
  \/ \E tpls \in BatchLists(FacadeBatch, MaxDirect) :
       BatchSaveCall(tpls, "ok", MaxDirect)
  \/ LoadData({<<"ok", "ok">>})
  \/ DirectGet
  \/ \E t \in FacadeSingle : DirectPost(t, MaxDirect)
  \/ \E items \in DirectLists : DirectBatch(items, MaxDirect)

SpecEndpoint == InitForms /\ [][NextEndpoint]_vars

(***************************************************************************)
(* What login and the write calls give their caller, and who is served.    *)
(***************************************************************************)
\* C18: verifyLogin resolves to authorized = true exactly when the request
\* reached the script and the password sent equals MASTER_PASSWORD; in every
\* other case (another password, a network failure, a status that is not OK,
\* a body that is not JSON) it resolves to authorized = false with a message,
\* and it never throws.
C18_LoginAuthorizedIffSecret ==
  call.op = "login" =>
    /\ call.result <=> (call.password = MASTER_PASSWORD /\ call.outcome = "ok")
    /\ ~call.result => (call.message.k = "string" /\ call.message.s # "")
    /\ ~call.threw

\* a login with a password of the secret's length that differs from it in
\* case reached the script and was refused with a message
C18_WrongCaseRefused ==
  /\ call.op = "login"
  /\ call.outcome = "ok"
  /\ call.password # MASTER_PASSWORD
  /\ Len(call.password) = Len(MASTER_PASSWORD)
  /\ ~call.result
  /\ call.message = Str("mima_bu_zhengque")
  /\ currentUser = ""

\* the write calls of the facade
WriteOps == {"insert", "update", "delete", "batch_insert"}

\* C14: a write call of the logged-in client (save, update, delete,
\* batchSave) resolves to true only when the script applied the write, and to
\* false after a network failure, a status that is not OK or a result of
\* "error".
C14_FalseWhenNotApplied ==
  (call.op \in WriteOps /\ call.session # "") =>
    /\ call.result => call.applied
    /\ call.outcome \in {"failed", "status", "error"} => ~call.result

\* C17: a fetch, insert, update, delete or batch_insert that the script
\* carried out was requested from a session that a successful login opened.
C17_ServedOnlyAfterLogin ==
  (call.op \in WriteOps \cup {"fetchAll"} /\ call.outcome = "ok") =>
    call.session \in AUTHORIZED_USERS

\* the items of a list, in list order, whose type is a category
ItemsOf(list, cat) ==
  SelectSeq(list, LAMBDA item : item # Null /\ item["type"] = Str(cat))

\* the rows a sheet gets for a list of items
RowsFor(sheet, cat, list) ==
  [k \in 1..Len(list) |-> processRowData(sheet, cat, list[k], Get(list[k], "id"))]

\* a step in which the script ran a batch_insert request
BatchInsertStep ==
  /\ call'.op = "batch_insert"
  /\ call'.outcome = "ok"
  /\ <<last, call>>' # <<last, call>>

\* C20: a batch_insert request leaves every sheet with the rows it had,
\* followed by one row for each item of its category that comes before the
\* first failing item, in list order; a sheet that was missing and got a row
\* exists afterwards, and no row is written for the failing item or an item
\* after it.
C20_BatchInsertOnePerItem ==
  [][BatchInsertStep =>
       \A cat \in Categories :
         /\ sheets'[cat].rows =
              sheets[cat].rows
                \o RowsFor(sheets'[cat], cat,
                           ItemsOf(SubSeq(call'.list, 1, FirstFailing(call'.list) - 1),
                                   cat))
         /\ sheets'[cat].exists <=>
              \/ sheets[cat].exists
              \/ ItemsOf(SubSeq(call'.list, 1, FirstFailing(call'.list) - 1),
                         cat) # <<>>]_vars

\* a batch_insert request whose second item of three fails on a spreadsheet
\* without the first item's sheet: the sheet was created and holds the first
\* item's row, and nothing else was written
C20_SecondOfThreeFailed ==
  /\ call.op = "batch_insert"
  /\ call.outcome = "ok"
  /\ Len(call.list) = 3
  /\ FirstFailing(call.list) = 2
  /\ call.list[3] # Null
  /\ last.op = "batch_insert"
  /\ last.created
  /\ Len(last.writes) = 1
  /\ TotalRows(sheets) = 1

(***************************************************************************)
(* What a delete call leaves alone.                                        *)
(***************************************************************************)
\* C26: a delete call creates no sheet, appends no header and leaves in every
\* sheet the rows whose id is not the id of the call, with their content, in
\* their order.
C26_DeleteOnlyRemovesRows ==
  [][last'.op = "delete" =>
       \A cat \in Categories :
         /\ sheets'[cat].exists = sheets[cat].exists
         /\ sheets'[cat].hdr = sheets[cat].hdr
         /\ sheets'[cat].rows =
              SelectSeq(sheets[cat].rows,
                        LAMBDA row : ~IdMatches(row, last'.id))]_vars

(***************************************************************************)
(* The dashboard: src/components/Dashboard.tsx, the component App mounts.  *)
(***************************************************************************)
\* most transactions of a drawn list the dashboard is given
MaxShown == 3

\* String.prototype.split('-'): cur is the part being read
RECURSIVE SplitDash(_, _, _)
SplitDash(t, cur, acc) ==
  IF t = "" THEN Append(acc, cur)
  ELSE IF Head(t) = "-" THEN SplitDash(Tail(t), "", Append(acc, cur))
  ELSE SplitDash(Tail(t), cur \o SubSeq(t, 1, 1), acc)

\* t.date.split('-')[1]
DatePart(date, index) ==
  IF index + 1 <= Len(SplitDash(date, "", <<>>))
  THEN Str(SplitDash(date, "", <<>>)[index + 1])
  ELSE Undef

\* the digits a text starts with
RECURSIVE LeadingDigits(_)
LeadingDigits(t) ==
  IF t # "" /\ IsDigit(Head(t)) THEN SubSeq(t, 1, 1) \o LeadingDigits(Tail(t))
  ELSE ""

\* parseInt(v) for a text without sign: the value of the digits that follow
\* the leading blanks, NaN when there are none (and for undefined)
ParseInt(v) ==
  IF v.k = "string" /\ LeadingDigits(TrimLeft(v.s)) # ""
  THEN Num(DigitsVal(LeadingDigits(TrimLeft(v.s)), 0))
  ELSE NaN

\* t.total || 0
Amount(t) == ToNumber(Or(t["total"], Num(0))).n

\* total += (t.total || 0) over a list
RECURSIVE SumAmount(_)
SumAmount(list) ==
  IF list = <<>> THEN 0 ELSE Amount(Head(list)) + SumAmount(Tail(list))

\* the selections of the dashboard's type filter
ALL == "ALL"

\* yearTransactions
yearTransactions(txs, selectedYear) ==
  SelectSeq(txs, LAMBDA t : StartsWith(t["date"].s, selectedYear))

\* filteredTransactions
filteredTransactions(yearTxs, selectedMonth, selectedTypeFilter) ==
  SelectSeq(yearTxs,
            LAMBDA t :
              /\ selectedMonth = "all" \/ DatePart(t["date"].s, 1) = Str(selectedMonth)
              /\ selectedTypeFilter = ALL \/ t["type"] = Str(selectedTypeFilter))

\* the transactions of a list that are of one category
OfType(list, cat) == SelectSeq(list, LAMBDA t : t["type"] = Str(cat))

\* settlementStats: the cards of INBOUND and REPAIR and the grand total
settlementStats(filtered) ==
  [categories |->
     [cat \in {INBOUND, REPAIR} |->
        [total |-> SumAmount(OfType(filtered, cat)),
         count |-> Len(OfType(filtered, cat))]],
   grandTotal |-> SumAmount(OfType(filtered, INBOUND))
                    + SumAmount(OfType(filtered, REPAIR)),
   grandCount |-> Len(OfType(filtered, INBOUND)) + Len(OfType(filtered, REPAIR))]

\* the keys of the Map of repairRanking, in insertion order: the material
\* names in the order of their first transaction
RECURSIVE MapKeys(_, _)
MapKeys(list, acc) ==
  IF list = <<>> THEN acc
  ELSE IF \E k \in 1..Len(acc) : acc[k] = Head(list)["materialName"]
       THEN MapKeys(Tail(list), acc)
  ELSE MapKeys(Tail(list), Append(acc, Head(list)["materialName"]))

\* Array.from(map.entries()).map(([name, stats]) => ({ name, ...stats }))
MapEntries(repairs, names) ==
  [k \in 1..Len(names) |->
     [name |-> names[k],
      count |-> Len(SelectSeq(repairs, LAMBDA t : t["materialName"] = names[k])),
      total |-> SumAmount(SelectSeq(repairs,
                                    LAMBDA t : t["materialName"] = names[k]))]]

\* Faulty variant of Compare: the total is not looked at
CompareByCount(a, b) == b.count - a.count

\* the comparator of repairRanking: b.count - a.count || b.total - a.total
Compare(a, b) ==
  IF b.count - a.count # 0 THEN b.count - a.count ELSE b.total - a.total

\* Array.prototype.sort (stable): item goes in front of the first entry of a
\* sorted list that the comparator puts after it
RECURSIVE Inserted(_, _)
Inserted(item, sorted) ==
  IF sorted = <<>> THEN <<item>>
  ELSE IF Compare(Head(sorted), item) > 0 THEN <<item>> \o sorted
  ELSE <<Head(sorted)>> \o Inserted(item, Tail(sorted))

RECURSIVE Sorted(_, _)
Sorted(list, acc) ==
  IF list = <<>> THEN acc ELSE Sorted(Tail(list), Inserted(Head(list), acc))

\* most entries of the ranking: list.slice(0, 10)
RankingSize == 10

\* list.slice(0, 10).map(...): percentage is (item.count / maxCount) * 100,
\* kept as the fraction num / den
Ranked(list) ==
  [k \in 1..(IF Len(list) < RankingSize THEN Len(list) ELSE RankingSize) |->
     [name |-> list[k].name, count |-> list[k].count, total |-> list[k].total,
      percentage |-> [num |-> list[k].count * 100,
                      den |-> IF Len(list) > 0 THEN list[1].count ELSE 1]]]

\* repairRanking
repairRanking(filtered) ==
  Ranked(Sorted(MapEntries(OfType(filtered, REPAIR),
                           MapKeys(OfType(filtered, REPAIR), <<>>)),
                <<>>))

\* isRelevantType of annualTrendData
IsRelevantType(t, selectedTypeFilter) ==
  IF selectedTypeFilter = ALL
  THEN t["type"] = Str(INBOUND) \/ t["type"] = Str(REPAIR)
  ELSE t["type"] = Str(selectedTypeFilter)

\* annualTrendData: twelve months, and each relevant transaction added to
\* months[parseInt(t.date.split('-')[1]) - 1] when that entry exists
annualTrendData(yearTxs, selectedTypeFilter) ==
  [i \in 1..12 |->
     [month |-> NatToString(i) \o "yue",
      amount |->
        SumAmount(SelectSeq(yearTxs,
                            LAMBDA t :
                              /\ IsRelevantType(t, selectedTypeFilter)
                              /\ ParseInt(DatePart(t["date"].s, 1)) = Num(i)))]]

\* what Dashboard renders for the transactions it is given
DashboardView(filtered, yearTxs, selectedYear, selectedMonth, selectedTypeFilter) ==
  [shown |-> "Dashboard", selectedYear |-> selectedYear,
   selectedMonth |-> selectedMonth, selectedTypeFilter |-> selectedTypeFilter,
   filteredTransactions |-> filtered,
   settlementStats |-> settlementStats(filtered),
   repairRanking |-> repairRanking(filtered),
   annualTrendData |-> annualTrendData(yearTxs, selectedTypeFilter)]

Dashboard(txs, selectedYear, selectedMonth, selectedTypeFilter) ==
  DashboardView(filteredTransactions(yearTransactions(txs, selectedYear),
                                     selectedMonth, selectedTypeFilter),
                yearTransactions(txs, selectedYear),
                selectedYear, selectedMonth, selectedTypeFilter)

\* a transaction as the dashboard reads it
DashboardTx(type, date, materialName, total) ==
  Object([id |-> Str("TX1"), type |-> Str(type), date |-> Str(date),
          materialName |-> Str(materialName), total |-> total])

\* the transactions the lists are drawn from: every category, two months
\* and two years, a record without date, a total that is NaN
DashboardSamples ==
  {DashboardTx(INBOUND, "2024-03-01", "m", Num(5)),
   DashboardTx(REPAIR, "2024-03-02", "m", Num(3)),
   DashboardTx(REPAIR, "2024-03-05", "n", Num(7)),
   DashboardTx(USAGE, "2024-03-01", "m", Num(2)),
   DashboardTx(CONSTRUCTION, "2024-04-01", "m", Num(4)),
   DashboardTx(REPAIR, "2023-03-01", "n", Num(1)),
   DashboardTx(REPAIR, "", "m", NaN)}

\* repairs of eleven materials, the first of them twice
ManyNames == <<"a", "b", "c", "d", "e", "f", "g", "h", "i", "j", "k">>

ManyRepairs ==
  [i \in 1..12 |->
     DashboardTx(REPAIR, "2024-03-01", ManyNames[((i - 1) % 11) + 1], Num(i))]

DashboardLists ==
  UNION {[1..n -> DashboardSamples] : n \in 0..MaxShown} \cup {ManyRepairs}

\* the years, months and types the selectors of the dashboard offer
Years == {"2024", "2023"}

Months == {"all", "03", "04"}

TypeFilters == {ALL, INBOUND, REPAIR}

\* the dashboard of a client that holds a list of transactions: the year and
\* the month of today are selected
InitDashboard ==
  /\ sheets = [cat \in Categories |-> NoSheet]
  /\ last = [op |-> "init", type |-> "", id |-> "", writes |-> NoWrites,
             rowIdx |-> 0, missing |-> 0, created |-> FALSE,
             removed |-> NoRemoved]
  /\ issued = <<>>
  /\ currentUser = "u"
  /\ form = NoForm
  /\ call = NoCall
  /\ cache = <<>>
  /\ pending = <<>>
  /\ running = <<>>
  /\ transactions \in DashboardLists
  /\ view = Dashboard(transactions, SubSeq(Today, 1, 4), SubSeq(Today, 6, 7), ALL)

\* setSelectedYear, setSelectedMonth, setSelectedTypeFilter, and the render
\* that follows
setSelectedYear(year) ==
  /\ view.shown = "Dashboard"
  /\ view' = Dashboard(transactions, year, view.selectedMonth,
                       view.selectedTypeFilter)
  /\ UNCHANGED <<sheets, last, issued, currentUser, form, call,
                 transactions, cache, pending, running>>

setSelectedMonth(month) ==
  /\ view.shown = "Dashboard"
  /\ view' = Dashboard(transactions, view.selectedYear, month,
                       view.selectedTypeFilter)
  /\ UNCHANGED <<sheets, last, issued, currentUser, form, call,
                 transactions, cache, pending, running>>

setSelectedTypeFilter(type) ==
  /\ view.shown = "Dashboard"
  /\ view' = Dashboard(transactions, view.selectedYear, view.selectedMonth, type)
  /\ UNCHANGED <<sheets, last, issued, currentUser, form, call,
                 transactions, cache, pending, running>>

NextDashboard ==
  \/ \E year \in Years : setSelectedYear(year)
  \/ \E month \in Months : setSelectedMonth(month)
  \/ \E type \in TypeFilters : setSelectedTypeFilter(type)

SpecDashboard == InitDashboard /\ [][NextDashboard]_vars

(***************************************************************************)
(* What the dashboard reports.                                             *)
(***************************************************************************)
\* the sum of total over a list
RECURSIVE SumOfTotal(_)
SumOfTotal(list) ==
  IF list = <<>> THEN 0 ELSE Head(list)["total"].n + SumOfTotal(Tail(list))

\* C21: the dashboard reports for each of the four categories the sum of
\* total and the number of the filtered transactions of that category, and a
\* grand total and a grand count that are the sum of total and the number of
\* all filtered transactions.
C21_SettlementTotalsPerCategory ==
  view.shown = "Dashboard" =>
    /\ \A cat \in Categories :
         /\ cat \in DOMAIN view.settlementStats.categories
         /\ view.settlementStats.categories[cat].total =
              SumOfTotal(OfType(view.filteredTransactions, cat))
         /\ view.settlementStats.categories[cat].count =
              Len(OfType(view.filteredTransactions, cat))
    /\ view.settlementStats.grandTotal = SumOfTotal(view.filteredTransactions)
    /\ view.settlementStats.grandCount = Len(view.filteredTransactions)

\* a transaction is dated in month m of a year: its date is yyyy-mm-..
DatedIn(t, year, m) ==
  /\ Len(t["date"].s) >= 7
  /\ SubSeq(t["date"].s, 1, 5) = year \o "-"
  /\ SubSeq(t["date"].s, 6, 7) = (IF m < 10 THEN "0" ELSE "") \o NatToString(m)

\* C22: the trend has twelve entries in calendar order, and entry m is the
\* sum of total over the transactions dated in month m of the selected year
\* that are of the selected type, of any type when ALL is selected (0 when
\* there are none).
C22_MonthlyTrendTwelveSums ==
  view.shown = "Dashboard" =>
    /\ Len(view.annualTrendData) = 12
    /\ \A m \in 1..12 :
         /\ view.annualTrendData[m].month = NatToString(m) \o "yue"
         /\ view.annualTrendData[m].amount =
              SumOfTotal(SelectSeq(transactions,
                                   LAMBDA t :
                                     /\ DatedIn(t, view.selectedYear, m)
                                     /\ \/ view.selectedTypeFilter = ALL
                                        \/ t["type"] = Str(view.selectedTypeFilter)))

\* the material names of the filtered REPAIR transactions
RepairNames ==
  {t["materialName"] : t \in {view.filteredTransactions[k] :
                                k \in {j \in 1..Len(view.filteredTransactions) :
                                         view.filteredTransactions[j]["type"]
                                           = Str(REPAIR)}}}

\* C23: the ranking has at most ten entries, each for another material name
\* of the filtered REPAIR transactions and all of them when there are at most
\* ten; an entry's count and total are the number and the sum of total of
\* the REPAIR transactions of its name; the entries are in order of count
\* descending, then total descending; the percentage of an entry is its
\* count relative to the first entry's count: 100 for the first, at most 100
\* for every entry.
C23_RepairRankingTopTen ==
  view.shown = "Dashboard" =>
    /\ Len(view.repairRanking) <= 10
    /\ Len(view.repairRanking) =
         (IF Cardinality(RepairNames) < 10 THEN Cardinality(RepairNames) ELSE 10)
    /\ \A k \in 1..Len(view.repairRanking) :
         /\ view.repairRanking[k].name \in RepairNames
         /\ \A j \in 1..Len(view.repairRanking) :
              j # k => view.repairRanking[j].name # view.repairRanking[k].name
         /\ view.repairRanking[k].count =
              Len(SelectSeq(OfType(view.filteredTransactions, REPAIR),
                            LAMBDA t : t["materialName"] = view.repairRanking[k].name))
         /\ view.repairRanking[k].total =
              SumOfTotal(SelectSeq(OfType(view.filteredTransactions, REPAIR),
                                   LAMBDA t : t["materialName"]
                                                = view.repairRanking[k].name))
         /\ k > 1 =>
              \/ view.repairRanking[k - 1].count > view.repairRanking[k].count
              \/ /\ view.repairRanking[k - 1].count = view.repairRanking[k].count
                 /\ view.repairRanking[k - 1].total >= view.repairRanking[k].total
         /\ view.repairRanking[k].percentage.num * view.repairRanking[1].count =
              view.repairRanking[k].count * 100 * view.repairRanking[k].percentage.den
         /\ view.repairRanking[k].percentage.num
              <= 100 * view.repairRanking[k].percentage.den
    /\ Len(view.repairRanking) > 0 =>
         view.repairRanking[1].percentage.num
           = 100 * view.repairRanking[1].percentage.den

\* with REPAIR selected, a ranking cut to ten of eleven materials whose second
\* and third entry have the same count and are ordered by their totals
C23_RankingCutAndTieBroken ==
  /\ view.shown = "Dashboard"
  /\ view.selectedTypeFilter = REPAIR
  /\ Cardinality(RepairNames) = 11
  /\ Len(view.repairRanking) = 10
  /\ view.repairRanking[1].count = 2
  /\ view.repairRanking[2].count = view.repairRanking[3].count
  /\ view.repairRanking[2].total > view.repairRanking[3].total
  /\ view.repairRanking[2].name = Str("k")
  /\ view.repairRanking[2].percentage = [num |-> 100, den |-> 2]

(***************************************************************************)
(* The record list: filteredList of src/App.tsx.                           *)
(***************************************************************************)
\* most transactions of a drawn list the record list is given
MaxListed == 2

\* the order of the characters of a date text (their code units)
DateChars == "-0123456789"

CharRank(c) ==
  IF \E i \in 1..Len(DateChars) : SubSeq(DateChars, i, i) = c
  THEN CHOOSE i \in 1..Len(DateChars) : SubSeq(DateChars, i, i) = c
  ELSE Len(DateChars) + 1

\* a < b on texts of these characters
RECURSIVE TextLess(_, _)
TextLess(a, b) ==
  IF b = "" THEN FALSE
  ELSE IF a = "" THEN TRUE
  ELSE IF Head(a) = Head(b) THEN TextLess(Tail(a), Tail(b))
  ELSE CharRank(Head(a)) < CharRank(Head(b))

\* String.prototype.slice(0, 10)
Slice10(t) == SubSeq(t, 1, IF Len(t) < 10 THEN Len(t) ELSE 10)

\* the keyword test of filteredList, for a keyword k that is not empty
MatchesKeyword(t, k) ==
  \/ IncludesText(ToLowerCase(t["materialName"].s), k)
  \/ IncludesText(ToLowerCase(t["materialNumber"].s), k)
  \/ Truthy(t["sn"]) /\ IncludesText(ToLowerCase(t["sn"].s), k)
  \/ Truthy(t["machineNumber"]) /\ IncludesText(ToLowerCase(t["machineNumber"].s), k)

\* the callback of transactions.filter in filteredList, under the selections
\* v (selectedRepairMaterial is null: nothing sets it to a name)
Kept(t, v) ==
  IF v.statusFilter = "pending_inbound"
  THEN t["type"] = Str(INBOUND) /\ t["isReceived"] = Bool(FALSE)
  ELSE IF v.statusFilter = "scrapped" THEN t["isScrapped"] = Bool(TRUE)
  ELSE IF v.statusFilter = "repairing"
  THEN /\ t["type"] = Str(REPAIR)
       /\ ~Truthy(t["repairDate"])
       /\ ~Truthy(t["isScrapped"])
  ELSE IF v.activeTab = "records"
          /\ (t["type"] = Str(REPAIR) \/ t["isScrapped"] = Bool(TRUE))
  THEN FALSE
  ELSE IF v.activeTab = "records"
          /\ v.recordCategoryFilter # "all" /\ t["type"] # Str(v.recordCategoryFilter)
  THEN FALSE
  ELSE IF v.activeTab = "repairs" /\ t["type"] # Str(REPAIR) THEN FALSE
  ELSE IF v.startDate # "" /\ TextLess(t["date"].s, v.startDate) THEN FALSE
  ELSE IF v.endDate # "" /\ TextLess(v.endDate, t["date"].s) THEN FALSE
  ELSE IF Trim(ToLowerCase(v.keywordSearch)) # ""
  THEN MatchesKeyword(t, Trim(ToLowerCase(v.keywordSearch)))
  ELSE TRUE

\* .sort((a, b) => b.date.slice(0, 10).localeCompare(a.date.slice(0, 10))),
\* stable: item goes in front of the first entry with an earlier date
RECURSIVE InsertedByDate(_, _)
InsertedByDate(item, sorted) ==
  IF sorted = <<>> THEN <<item>>
  ELSE IF TextLess(Slice10(Head(sorted)["date"].s), Slice10(item["date"].s))
       THEN <<item>> \o sorted
  ELSE <<Head(sorted)>> \o InsertedByDate(item, Tail(sorted))

RECURSIVE SortedByDate(_, _)
SortedByDate(list, acc) ==
  IF list = <<>> THEN acc
  ELSE SortedByDate(Tail(list), InsertedByDate(Head(list), acc))

\* filteredList
filteredList(txs, v) ==
  SortedByDate(SelectSeq(txs, LAMBDA t : Kept(t, v)), <<>>)

\* the record list under selections v, rendered
RecordsView(txs, v) == [v EXCEPT !.filteredList = filteredList(txs, v)]

\* the selections when App mounts on the records tab
DefaultSelections ==
  [shown |-> "filteredList", activeTab |-> "records", statusFilter |-> "all",
   recordCategoryFilter |-> "all", startDate |-> "", endDate |-> "",
   keywordSearch |-> "", filteredList |-> <<>>]

\* a transaction as the record list reads it
ListedTx(type, date, materialName, isScrapped, isReceived, repairDate) ==
  Object([id |-> Str("TX1"), type |-> Str(type), date |-> Str(date),
          materialName |-> Str(materialName), materialNumber |-> Str(""),
          machineNumber |-> Str(""), sn |-> Str(""),
          isScrapped |-> Bool(isScrapped), isReceived |-> Bool(isReceived),
          repairDate |-> Str(repairDate)])

\* the transactions the lists are drawn from: a purchase not yet received,
\* a usage, a repair under way, a scrapped repair, a scrapped usage
ListedSamples ==
  {ListedTx(INBOUND, "2024-02-20", "Motor", FALSE, FALSE, ""),
   ListedTx(USAGE, "2024-02-01", "belt", FALSE, FALSE, ""),
   ListedTx(REPAIR, "2024-03-05", "Motor", FALSE, FALSE, ""),
   ListedTx(REPAIR, "2024-01-05", "pump", TRUE, FALSE, ""),
   ListedTx(USAGE, "2024-03-09", "pump", TRUE, FALSE, "")}

ListedLists == UNION {[1..n -> ListedSamples] : n \in 1..MaxListed}

Tabs == {"records", "repairs"}

StatusFilters == {"all", "pending_inbound", "scrapped", "repairing"}

RecordCategoryFilters == {"all", INBOUND}

DateInputs == {"", "2024-03-01"}

Keywords == {"", " MOT"}

\* the record list of a client that holds a list of transactions
InitRecords ==
  /\ sheets = [cat \in Categories |-> NoSheet]
  /\ last = [op |-> "init", type |-> "", id |-> "", writes |-> NoWrites,
             rowIdx |-> 0, missing |-> 0, created |-> FALSE,
             removed |-> NoRemoved]
  /\ issued = <<>>
  /\ currentUser = "u"
  /\ form = NoForm
  /\ call = NoCall
  /\ cache = <<>>
  /\ pending = <<>>
  /\ running = <<>>
  /\ transactions \in ListedLists
  /\ view = RecordsView(transactions, DefaultSelections)

\* a change of the selections to v, and the render that follows
Select(v) ==
  /\ view' = RecordsView(transactions, v)
  /\ UNCHANGED <<sheets, last, issued, currentUser, form, call,
                 transactions, cache, pending, running>>

\* the menu button of a tab: setActiveTab(item.id); setStatusFilter('all')
setActiveTab(tab) ==
  /\ view.shown = "filteredList"
  /\ Select([view EXCEPT !.activeTab = tab, !.statusFilter = "all"])

\* the status selector: the records tab offers pending_inbound, the repairs
\* tab scrapped and repairing
setStatusFilter(status) ==
  /\ view.shown = "filteredList"
  /\ \/ status = "all"
     \/ view.activeTab = "records" /\ status = "pending_inbound"
     \/ view.activeTab = "repairs" /\ status \in {"scrapped", "repairing"}
  /\ Select([view EXCEPT !.statusFilter = status])

\* the category selector, which the records tab shows
setRecordCategoryFilter(cat) ==
  /\ view.shown = "filteredList"
  /\ view.activeTab = "records"
  /\ Select([view EXCEPT !.recordCategoryFilter = cat])

setStartDate(date) ==
  /\ view.shown = "filteredList"
  /\ Select([view EXCEPT !.startDate = date])

setEndDate(date) ==
  /\ view.shown = "filteredList"
  /\ Select([view EXCEPT !.endDate = date])

setKeywordSearch(k) ==
  /\ view.shown = "filteredList"
  /\ Select([view EXCEPT !.keywordSearch = k])

NextRecords ==
  \/ \E tab \in Tabs : setActiveTab(tab)
  \/ \E status \in StatusFilters : setStatusFilter(status)
  \/ \E cat \in RecordCategoryFilters : setRecordCategoryFilter(cat)
  \/ \E date \in DateInputs : setStartDate(date)
  \/ \E date \in DateInputs : setEndDate(date)
  \/ \E k \in Keywords : setKeywordSearch(k)

SpecRecords == InitRecords /\ [][NextRecords]_vars

\* C27: every transaction of filteredList passes the restriction of the
\* active tab, lies in the date range and matches the keyword, whatever the
\* status filter is.
C27_ListedPassAllFilters ==
  view.shown = "filteredList" =>
    \A k \in 1..Len(view.filteredList) :
      /\ view.activeTab = "records" =>
           /\ view.filteredList[k]["type"] # Str(REPAIR)
           /\ view.filteredList[k]["isScrapped"] # Bool(TRUE)
           /\ \/ view.recordCategoryFilter = "all"
              \/ view.filteredList[k]["type"] = Str(view.recordCategoryFilter)
      /\ view.activeTab = "repairs" => view.filteredList[k]["type"] = Str(REPAIR)
      /\ view.startDate # "" =>
           ~TextLess(view.filteredList[k]["date"].s, view.startDate)
      /\ view.endDate # "" =>
           ~TextLess(view.endDate, view.filteredList[k]["date"].s)
      /\ Trim(ToLowerCase(view.keywordSearch)) # "" =>
           MatchesKeyword(view.filteredList[k], Trim(ToLowerCase(view.keywordSearch)))


(***************************************************************************)
(* App at work: login, loadData as a request that is started and settles   *)
(* later, confirmDelete, handleLogout (src/App.tsx), with the retry of     *)
(* dbService.fetchAll taken one request at a time                          *)
(* (src/services/dbService.ts).                                            *)
(***************************************************************************)
\* the rows the store holds at most, and the loadData calls under way at most
MaxStored == 1
MaxPending == 1

\* the records written to the store: a TransactionForm record, and one whose
\* date input was cleared
StoredTemplates == {1, 9}

Slots == 1..MaxPending

\* the slots of the loadData calls under way
Taken == {pending[k].slot : k \in 1..Len(pending)}

\* loadData has called fetchAll, which has issued its first request; user is
\* the currentUser of the render that made the callback
Started(user) ==
  [slot |-> CHOOSE n \in Slots : n \notin Taken /\ \A m \in Slots \ Taken : n <= m,
   user |-> user, attempt |-> 0, requests |-> 1, failed |-> <<>>]

\* what becomes of a request of fetchAll: as FetchOutcomes, and the script's
\* answer replaced on its way by an array that holds a null ("nullitem")
RequestOutcomes == FetchOutcomes \cup {"nullitem"}

\* the body of a response that arrived
Answer(outcome, ss) == IF outcome = "nullitem" THEN <<Null>> ELSE doGet(ss)

\* fetchWithRetry, the attempt threw something other than an AbortError: fetch
\* rejected, the status was not ok, the body was not JSON, or data.map threw
AttemptFailed(outcome, rows) ==
  \/ outcome \in {"failed", "status", "body"}
  \/ outcome \in {"ok", "nullitem"} /\ rows.threw

\* Faulty variant of RetriesAfter: an aborted attempt is retried as well
RetriesAfterAbort(attempt, outcome, rows) ==
  (AttemptFailed(outcome, rows) \/ outcome = "abort") /\ attempt < Retries

\* fetchWithRetry, the catch block: whether fetchWithRetry(attempt + 1) is
\* called
RetriesAfter(attempt, outcome, rows) ==
  AttemptFailed(outcome, rows) /\ attempt < Retries

\* LoginScreen.handleLogin for a user that types the secret, onLogin, and the
\* effect of lines 108-112: currentUser is set, so loadData is called
Login(selectedUser) ==
  /\ currentUser = ""
  /\ Len(pending) < MaxPending
  /\ \E response \in {verifyLogin(selectedUser, MASTER_PASSWORD, "ok")} :
       /\ response.authorized
       /\ currentUser' = selectedUser
       /\ call' = [NoCall EXCEPT !.op = "login", !.user = selectedUser,
                                 !.password = MASTER_PASSWORD, !.outcome = "ok",
                                 !.result = response.authorized,
                                 !.message = response.message]
  /\ pending' = Append(pending, Started(selectedUser))
  /\ UNCHANGED <<sheets, last, issued, form, transactions, cache, view, running>>

\* loadData, up to the await: a refresh by the logged-in user
loadData ==
  /\ currentUser # ""
  /\ Len(pending) < MaxPending
  /\ pending' = Append(pending, Started(currentUser))
  /\ UNCHANGED <<sheets, last, issued, currentUser, form, call, transactions,
                 cache, view, running>>

\* the request under way of the loadData call in a slot settles: the catch
\* block issues the next request, or fetchAll resolves and loadData goes on
\* after its await (lines 95-100), whoever is logged in by then
Settle(slot, outcome) ==
  \E k \in 1..Len(pending) :
    /\ pending[k].slot = slot
    /\ \E p \in {pending[k]} : \E data \in {Answer(outcome, sheets)} :
         \E rows \in {FetchRows(data)} :
           IF RetriesAfter(p.attempt, outcome, rows)
           THEN /\ pending' = [pending EXCEPT ![k] =
                                 [p EXCEPT !.attempt = @ + 1, !.requests = @ + 1,
                                           !.failed = Append(@, outcome)]]
                /\ UNCHANGED <<call, transactions, cache>>
           ELSE \E value \in {IF outcome = "ok" /\ ~rows.threw
                              THEN rows.value ELSE <<>>} :
                  /\ pending' = [j \in 1..(Len(pending) - 1) |->
                                   IF j < k THEN pending[j] ELSE pending[j + 1]]
                  /\ transactions' = LoadedTransactions(value, transactions)
                  /\ cache' = LoadedCache(value, cache)
                  /\ call' = [NoCall EXCEPT
                                !.op = "fetchAll", !.session = p.user,
                                !.user = currentUser, !.list = data,
                                !.outcome = IF p.failed = <<>> THEN outcome
                                            ELSE p.failed[1],
                                !.retry = IF p.failed = <<>> THEN "" ELSE outcome,
                                !.result = (outcome = "ok" /\ ~rows.threw),
                                !.applied = (value # <<>>), !.value = value,
                                !.requests = p.requests]
    /\ UNCHANGED <<sheets, last, issued, currentUser, form, view, running>>

\* confirmDelete for the k-th record App holds: dbService.delete, then the
\* record leaves the list; the cache item is not written
confirmDelete(k) ==
  /\ currentUser # ""
  /\ k \in 1..Len(transactions)
  /\ \E t \in {transactions[k]} :
       /\ \E r \in {doPost(sheets, postToCloud("delete", t["id"], t["type"].s,
                                               EmptyObject))} :
            /\ sheets' = r.ss
            /\ last' = [op |-> "delete", type |-> t["type"].s, id |-> t["id"].s,
                        writes |-> NoWrites, rowIdx |-> 0, missing |-> r.missing,
                        created |-> r.created, removed |-> Removed(sheets, r.ss)]
       /\ transactions' = SelectSeq(transactions, LAMBDA x : x["id"] # t["id"])
       /\ call' = [NoCall EXCEPT !.op = "delete", !.session = currentUser,
                                 !.outcome = "ok", !.applied = TRUE,
                                 !.result = TRUE]
  /\ UNCHANGED <<issued, currentUser, form, cache, pending, view, running>>

\* handleLogout is run by the logout button and by the inactivity timer of
\* resetInactivityTimer; neither cancels a request under way
NextApp ==
  \/ Login("Mountain")
  \/ handleLogout
  \/ loadData
  \/ \E slot \in Slots : \E outcome \in RequestOutcomes : Settle(slot, outcome)
  \/ \E t \in StoredTemplates : DirectPost(t, MaxStored)
  \/ \E k \in 1..MaxStored : confirmDelete(k)

SpecApp == Init /\ [][NextApp]_vars


\* The sessions and their loadData calls alone, over a store that stays as it
\* is.  Every request under way settles: the script answers, fetch rejects, or
\* the browser gives the request up.
NextLoads ==
  \/ Login("Mountain")
  \/ handleLogout
  \/ loadData
  \/ \E slot \in Slots : \E outcome \in RequestOutcomes : Settle(slot, outcome)

SpecLoads ==
  /\ Init
  /\ [][NextLoads]_vars
  /\ \A slot \in Slots :
       WF_vars(\E outcome \in RequestOutcomes : Settle(slot, outcome))

\* the requests of the fetchAll calls under way and of the one that settled
\* last: no more than retries + 1, one more than the attempts that failed, and
\* none of the failed attempts was aborted or answered with a body that is
\* not an array
RequestsBounded ==
  /\ \A k \in 1..Len(pending) :
       /\ pending[k].requests <= Retries + 1
       /\ pending[k].requests = Len(pending[k].failed) + 1
       /\ \A j \in 1..Len(pending[k].failed) :
            pending[k].failed[j] \in {"failed", "status", "body", "nullitem"}
  /\ (call.op = "fetchAll" /\ call.requests > 0) =>
       /\ call.requests <= Retries + 1
       /\ ~call.threw
       /\ call.requests > 1 =>
            call.outcome \in {"failed", "status", "body", "nullitem"}

\* C30: a fetchAll call issues at most retries + 1 requests, a further one only
\* after an attempt that failed without being aborted, none after an abort,
\* and every call that was started settles with a result.
C30_FetchAllBoundedAndSettles ==
  /\ []RequestsBounded
  /\ \A slot \in Slots : (slot \in Taken) ~> (slot \notin Taken)

\* a call settled with [] after its second request failed as well
C30_GaveUpAfterRetry ==
  /\ call.op = "fetchAll"
  /\ call.requests = Retries + 1
  /\ call.outcome = "failed"
  /\ call.retry = "status"
  /\ call.value = <<>>
  /\ ~call.threw

\* a step in which a loadData call went on after an await whose fetch had
\* been answered by the script with rows that could be read
Loaded == Len(pending') < Len(pending) /\ call'.result

\* C24: a transaction whose stored date is missing or malformed (fetchAll
\* gives it the date "") is in the list App holds with the date "".
C24_BlankDateStaysBlank ==
  [][Loaded /\ call'.applied =>
       \A k \in 1..Len(call'.value) :
         call'.value[k]["date"] = Str("") => transactions'[k]["date"] = Str("")]_vars

\* C28: after a loadData whose fetch reached the store, by a user who is still
\* logged in, the list App holds and the cache item are the transactions of
\* the store, also when the store holds no rows.
C28_LoadedEqualsStore ==
  [][(Loaded /\ currentUser' # "") =>
       /\ transactions' = Transactions(sheets')
       /\ cache' = CacheItem(Transactions(sheets'))]_vars

\* C29: while nobody is logged in, the list App holds and the cache item are
\* empty.
C29_EmptyWhileLoggedOut ==
  currentUser = "" => (transactions = <<>> /\ cache = <<>>)


(***************************************************************************)
(* doPost executions that overlap (src/GAS_BACKEND.js): the script takes   *)
(* no lock, so an update call may have read the sheet and not yet written  *)
(* when another call changes it.                                           *)
(***************************************************************************)
\* the records saved at most
MaxRaced == 3

\* a row of the sheet that holds nothing
BlankRow(sheet) == [j \in 1..LastColumn(sheet) |-> Str("")]

\* sheet.getRange(rowIdx, 1, 1, rowData.length).setValues([rowData]) for any
\* data row position: below the last row the sheet's blank rows are written
setValues(sheet, pos, rowData) ==
  IF pos <= Len(sheet.rows) THEN setRow(sheet, pos, rowData)
  ELSE [sheet EXCEPT !.rows =
          [j \in 1..pos |-> IF j <= Len(sheet.rows) THEN sheet.rows[j]
                            ELSE IF j < pos THEN BlankRow(sheet) ELSE rowData]]

\* the id in the first cell of the data row at a position; "" below the rows
IdAt(sheet, pos) ==
  IF pos \in 1..Len(sheet.rows) THEN Trim(ToStringJS(Cell(sheet.rows[pos], 1)))
  ELSE ""

\* Faulty variant of WritePosition: the row is looked for again when writing
WritePositionFresh(run, sheet) == FirstMatch(sheet.rows, run.id)

\* line 186: the data row position setValues writes to is the rowIdx of the
\* scan of lines 183-185 (0: appendRow)
WritePosition(run, sheet) == run.rowIdx

\* doPost for an update of the i-th record issued, lines 170-185: the sheet is
\* found or created, ensureHeaders, processRowData, getValues and the scan
UpdateLocate(t, i) ==
  /\ running = <<>>
  /\ i \in 1..Len(issued)
  /\ \E tx \in {With(Templates[t], "id", Str(issued[i]))} :
       \E params \in {postToCloud("update", tx["id"], tx["type"].s, tx)} :
         \E new \in {SheetOrNew(sheets, params.type)} :
           \E sheet \in {ensureHeaders(new, params.type)} :
             /\ sheets' = [sheets EXCEPT ![params.type] = sheet]
             /\ running' = <<[action |-> "update", type |-> params.type,
                              id |-> issued[i], tpl |-> t,
                              rowData |-> processRowData(sheet, params.type,
                                                         params.data, Str(issued[i])),
                              rowIdx |-> FirstMatch(sheet.rows, issued[i]),
                              missing |-> Len(sheet.hdr) - Len(new.hdr),
                              created |-> ~sheets[params.type].exists]>>
  /\ UNCHANGED <<last, issued, currentUser, form, call, transactions, cache,
                 pending, view>>

\* the same execution, lines 186-187: setValues at rowIdx, or appendRow
UpdateWrite ==
  /\ running # <<>>
  /\ \E run \in {running[1]} : \E sheet \in {sheets[running[1].type]} :
       \E pos \in {WritePosition(run, sheet)} :
         /\ sheets' = [sheets EXCEPT ![run.type] =
                         IF pos # 0 THEN setValues(sheet, pos, run.rowData)
                         ELSE appendRow(sheet, run.rowData)]
         /\ TotalRows(sheets') <= MaxRaced
         /\ last' = [op |-> "update", type |-> run.type, id |-> run.id,
                     writes |-> <<[type |-> run.type,
                                   pos |-> IF pos # 0 THEN pos
                                           ELSE Len(sheet.rows) + 1,
                                   tpl |-> run.tpl, id |-> run.id,
                                   over |-> IdAt(sheet, pos)]>>,
                     rowIdx |-> run.rowIdx, missing |-> run.missing,
                     created |-> run.created, removed |-> NoRemoved]
  /\ running' = <<>>
  /\ UNCHANGED <<issued, currentUser, form, call, transactions, cache, pending,
                 view>>

\* a record is saved by a call that does not overlap another
RacedSave(t) ==
  /\ Save(t, MaxRaced)
  /\ UNCHANGED client

\* a delete call runs between the two steps of an update, or on its own
RacedDelete(i) ==
  /\ Delete(i, USAGE)
  /\ UNCHANGED client

NextRace ==
  \/ RacedSave(1)
  \/ \E i \in 1..MaxRaced : UpdateLocate(9, i)
  \/ UpdateWrite
  \/ \E i \in 1..MaxRaced : RacedDelete(i)

SpecRace == Init /\ [][NextRace]_vars

\* C25: the update writes its data at the row position its scan found,
\* whatever the sheet holds there by then, and leaves every other row as it
\* is; after a delete that removed a row above in between, that is the row of
\* another id.
C25_UpdateWritesAtStalePosition ==
  [][(running # <<>> /\ running' = <<>> /\ running[1].rowIdx # 0) =>
       /\ last'.writes[1].pos = running[1].rowIdx
       /\ sheets'[running[1].type].rows[running[1].rowIdx] = running[1].rowData
       /\ \A k \in 1..Len(sheets[running[1].type].rows) :
            k # running[1].rowIdx =>
              sheets'[running[1].type].rows[k] = sheets[running[1].type].rows[k]]_vars

\* an update has overwritten the row of another record: the row it was sent
\* for had moved up after a delete
C25_OtherRowOverwritten ==
  /\ last.op = "update"
  /\ last.rowIdx # 0
  /\ last.writes[1].over \notin {"", last.id}
  /\ Cardinality({k \in 1..Len(sheets[last.type].rows) :
                    IdAt(sheets[last.type], k) = last.id}) = 2

====
